---- MODULE Spec2Model ----
(***************************************************************************)
(* Execution-layer core of the block producer: the Redb state store with   *)
(* its transaction buffer, the REVM adapter, the block executor and the    *)
(* block pipeline of the producer.                                         *)
(*                                                                         *)
(* Units: gas is counted in units of the intrinsic cost of a plain         *)
(* transfer, balances and prices in small integers.  Hashes (keccak, MPT   *)
(* roots) are modelled as injective: a root is the set of its leaves.      *)
(***************************************************************************)
EXTENDS Integers, Sequences, FiniteSets, TLC

VARIABLES
    \* RedbStateDB
    db,                  \* the five persisted tables of the redb database
    tx_buffer,           \* Option<TransactionBuffer>
    changed_accounts,    \* Vec<Address>
    \* CachedRedbState
    cache,               \* HashMap<Address, AccountInfo>
    \* BlockExecutor::execute_block
    pc,                  \* position of the block pipeline
    index,               \* position in block.transactions
    execution_results,   \* HashMap<String, ExecutionResult>
    receipts,            \* HashMap<String, TransactionReceipt>
    total_gas_used,
    successful_txs,
    failed_txs,
    exec_result,         \* what execute_block returned
    \* BlockProducer
    block,               \* the block being produced (producer format)
    schema_block,        \* its conversion handed to the execution layer
    current_block_number,
    submit_result,       \* what submit_to_execution_layer returned
    \* observers
    snapshot,            \* the tables as they were at the last begin_transaction
    tx_log,              \* names of the write calls made inside the transaction begun last
    last_call,           \* the last store call, its result, and whether a transaction was active
    pending,             \* per key, the last write made inside the active transaction
    root_before,         \* the state root the client computed before its last begin_transaction
    world,               \* the state the applied deltas of the block amount to
    interp,              \* what the interpreter read in the last transact
    trace,               \* per transaction of the block: what became of it
    validation,          \* the last direct call of validate_transaction and its result
    \* WalrusStateDB
    walrus,              \* its fields: wal, cache, tx_buffer, changed_accounts
    \* BlockProducer: the transaction pool
    topic,               \* transactions waiting in the Walrus topic, oldest first
    pending_pool,        \* VecDeque<Transaction>
    taken,               \* the transactions the last produce_block attempt selected
    \* harness
    writes,              \* number of write calls issued by the store client
    txs_left             \* transactions the producer may still be handed

store_vars == <<db, tx_buffer, changed_accounts>>
exec_vars == <<cache, pc, index, execution_results, receipts, total_gas_used,
               successful_txs, failed_txs, exec_result>>
producer_vars == <<block, schema_block, current_block_number, submit_result>>
block_observers == <<world, interp, trace>>
store_observers == <<tx_log, last_call, pending, root_before>>
walrus_vars == <<walrus>>
pool_vars == <<topic, pending_pool, taken>>

vars == <<db, tx_buffer, changed_accounts, cache, pc, index, execution_results, receipts,
          total_gas_used, successful_txs, failed_txs, exec_result, block, schema_block,
          current_block_number, submit_result, snapshot, tx_log, last_call, pending,
          root_before, world, interp, trace, validation, walrus, topic, pending_pool,
          taken, writes, txs_left>>

(***************************************************************************)
(* Bounds                                                                  *)
(***************************************************************************)
MaxWrites == 3
MaxBlockNumber == 1
MaxTxs == 2
\* The width of U256 in the model: the largest value a U256 holds.
MaxU256 == 15
\* The nonces and gas limits of the transactions handed to validate_transaction.
MaxNonce == 2
MaxGas == 2
\* The number of transactions per block the producer is configured with.
MaxTxsPerBlock == 1

(***************************************************************************)
(* Option values                                                           *)
(***************************************************************************)
None == <<>>
Some(x) == <<x>>
IsSome(o) == o # <<>>
Unwrap(o) == o[1]
Range(s) == {s[i] : i \in DOMAIN s}

(***************************************************************************)
(* Primitive domains                                                       *)
(***************************************************************************)
\* "Z" is the zero address (the default coinbase), "A" and "B" are externally
\* owned accounts, "C" the address of a contract created in a block, "D" a
\* contract present at genesis.
Addresses == {"A", "B", "C", "D", "Z"}
Keys == {1}
Values == {0, 1, 2}
EMPTY_CODE_HASH == "keccak_empty"
CodeHashes == {"hC", "hD"}
EMPTY_STORAGE_ROOT == {}
BlockNumbers == 0..MaxBlockNumber
BlockHashes == {"bh1"}

\* The bytecode whose keccak-256 is h (an injective hash: one code per hash).
CodeOf(h) == <<"code", h>>

Account(n, b, ch) == [nonce |-> n, balance |-> b, storage_root |-> EMPTY_STORAGE_ROOT, code_hash |-> ch]
DefaultAccount == Account(0, 0, EMPTY_CODE_HASH)
with_balance(b) == Account(0, b, EMPTY_CODE_HASH)

\* bincode layout of an Account: its four fields in declaration order.
serialize_account(acc) == <<acc.nonce, acc.balance, acc.storage_root, acc.code_hash>>
deserialize_account(d) == [nonce |-> d[1], balance |-> d[2], storage_root |-> d[3], code_hash |-> d[4]]

\* bincode layout of a Block: the header fields in declaration order, then the transactions.
serialize_block(b) ==
    <<b.header.number, b.header.tx_count, b.header.transactions_root, b.header.state_root,
      b.header.gas_used, b.header.gas_limit, b.header.receipts_root, b.transactions>>
deserialize_block(d) ==
    [header |-> [number |-> d[1], tx_count |-> d[2], transactions_root |-> d[3],
                 state_root |-> d[4], gas_used |-> d[5], gas_limit |-> d[6],
                 receipts_root |-> d[7]],
     transactions |-> d[8]]

(***************************************************************************)
(* RedbStateDB                                                             *)
(***************************************************************************)
StorageKeys == Addresses \X Keys

EmptyTables ==
    [accounts |-> [a \in Addresses |-> None],
     storage |-> [sk \in StorageKeys |-> None],
     code |-> [h \in CodeHashes |-> None],
     blocks |-> [n \in BlockNumbers |-> None],
     block_hashes |-> [n \in BlockNumbers |-> None]]

TransactionBuffer_new ==
    [accounts |-> [a \in Addresses |-> None],
     storage |-> [sk \in StorageKeys |-> None],
     codes |-> [h \in CodeHashes |-> None],
     block_hashes |-> [n \in BlockNumbers |-> None],
     deleted_accounts |-> <<>>]

\* The store as one value: s.db, s.tx_buffer, s.changed_accounts.
Store == [db |-> db, tx_buffer |-> tx_buffer, changed_accounts |-> changed_accounts]

\* Tracking that appends without looking for the address in the list.
track_changed_account_appending(s, address) ==
    [s EXCEPT !.changed_accounts = Append(@, address)]

track_changed_account(s, address) ==
    IF address \in Range(s.changed_accounts)
    THEN s
    ELSE [s EXCEPT !.changed_accounts = Append(@, address)]

\* A lookup that consults the tombstones before the buffered upserts.
get_account_tombstones_first(s, address) ==
    IF IsSome(s.tx_buffer) /\ address \in Range(Unwrap(s.tx_buffer).deleted_accounts)
    THEN None
    ELSE IF IsSome(s.tx_buffer) /\ IsSome(Unwrap(s.tx_buffer).accounts[address])
    THEN Unwrap(s.tx_buffer).accounts[address]
    ELSE IF IsSome(s.db.accounts[address])
    THEN Some(deserialize_account(Unwrap(s.db.accounts[address])))
    ELSE None

get_account(s, address) ==
    IF IsSome(s.tx_buffer) /\ IsSome(Unwrap(s.tx_buffer).accounts[address])
    THEN Unwrap(s.tx_buffer).accounts[address]
    ELSE IF IsSome(s.tx_buffer) /\ address \in Range(Unwrap(s.tx_buffer).deleted_accounts)
    THEN None
    ELSE IF IsSome(s.db.accounts[address])
    THEN Some(deserialize_account(Unwrap(s.db.accounts[address])))
    ELSE None

set_account(s, address, account) ==
    LET t == track_changed_account(s, address) IN
    IF IsSome(t.tx_buffer)
    THEN [t EXCEPT !.tx_buffer = Some([Unwrap(@) EXCEPT !.accounts[address] = Some(account)])]
    ELSE [t EXCEPT !.db.accounts[address] = Some(serialize_account(account))]

delete_account(s, address) ==
    LET t == track_changed_account(s, address) IN
    IF IsSome(t.tx_buffer)
    THEN [t EXCEPT !.tx_buffer = Some([Unwrap(@) EXCEPT !.accounts[address] = None,
                                                         !.deleted_accounts = Append(@, address)])]
    ELSE [t EXCEPT !.db.accounts[address] = None]

get_storage(s, address, key) ==
    IF IsSome(s.tx_buffer) /\ IsSome(Unwrap(s.tx_buffer).storage[<<address, key>>])
    THEN Unwrap(Unwrap(s.tx_buffer).storage[<<address, key>>])
    ELSE IF IsSome(s.db.storage[<<address, key>>])
    THEN Unwrap(s.db.storage[<<address, key>>])
    ELSE 0

set_storage(s, address, key, value) ==
    LET t == track_changed_account(s, address) IN
    IF IsSome(t.tx_buffer)
    THEN [t EXCEPT !.tx_buffer = Some([Unwrap(@) EXCEPT !.storage[<<address, key>>] = Some(value)])]
    ELSE [t EXCEPT !.db.storage[<<address, key>>] = Some(value)]

\* The slots of the persisted storage table whose address matches.
get_all_storage(s, address) ==
    {[address |-> address, key |-> k, value |-> Unwrap(s.db.storage[<<address, k>>])] :
        k \in {k2 \in Keys : IsSome(s.db.storage[<<address, k2>>])}}

get_code(s, code_hash) == s.db.code[code_hash]

set_code(s, code_hash, code) ==
    IF IsSome(s.tx_buffer)
    THEN [s EXCEPT !.tx_buffer = Some([Unwrap(@) EXCEPT !.codes[code_hash] = Some(code)])]
    ELSE [s EXCEPT !.db.code[code_hash] = Some(code)]

get_block_hash(s, block_number) ==
    IF IsSome(s.tx_buffer) /\ IsSome(Unwrap(s.tx_buffer).block_hashes[block_number])
    THEN Unwrap(s.tx_buffer).block_hashes[block_number]
    ELSE s.db.block_hashes[block_number]

set_block_hash(s, block_number, block_hash) ==
    IF IsSome(s.tx_buffer)
    THEN [s EXCEPT !.tx_buffer = Some([Unwrap(@) EXCEPT !.block_hashes[block_number] = Some(block_hash)])]
    ELSE [s EXCEPT !.db.block_hashes[block_number] = Some(block_hash)]

\* save_block opens its own write transaction on the database and commits it.
save_block(s, b) ==
    [s EXCEPT !.db.blocks[b.header.number] = Some(serialize_block(b))]

get_block(s, block_number) ==
    IF IsSome(s.db.blocks[block_number])
    THEN Some(deserialize_block(Unwrap(s.db.blocks[block_number])))
    ELSE None

\* begin_transaction on a store with no active transaction.
begin_transaction(s) ==
    [s EXCEPT !.tx_buffer = Some(TransactionBuffer_new), !.changed_accounts = <<>>]

\* The accounts table after the deletions of the buffer, in order.
RECURSIVE RemoveAll(_, _)
RemoveAll(accounts, deleted) ==
    IF deleted = <<>>
    THEN accounts
    ELSE RemoveAll([accounts EXCEPT ![Head(deleted)] = None], Tail(deleted))

\* The write batch of commit_transaction: account upserts, account deletions,
\* storage, code, block hashes, in one database write transaction.
CommitBatch(tables, buffer) ==
    [tables EXCEPT
        !.accounts = RemoveAll(
            [a \in Addresses |->
                IF IsSome(buffer.accounts[a])
                THEN Some(serialize_account(Unwrap(buffer.accounts[a])))
                ELSE tables.accounts[a]],
            buffer.deleted_accounts),
        !.storage = [sk \in StorageKeys |->
            IF IsSome(buffer.storage[sk]) THEN buffer.storage[sk] ELSE tables.storage[sk]],
        !.code = [h \in CodeHashes |->
            IF IsSome(buffer.codes[h]) THEN buffer.codes[h] ELSE tables.code[h]],
        !.block_hashes = [n \in BlockNumbers |->
            IF IsSome(buffer.block_hashes[n]) THEN buffer.block_hashes[n] ELSE tables.block_hashes[n]]]

\* A commit whose account upserts reach the table although the write fails.
commit_transaction_partial(s, io_ok) ==
    IF io_ok
    THEN [s EXCEPT !.db = CommitBatch(s.db, Unwrap(s.tx_buffer)), !.tx_buffer = None]
    ELSE [s EXCEPT !.db.accounts = CommitBatch(s.db, Unwrap(s.tx_buffer)).accounts,
                   !.tx_buffer = None]

\* commit_transaction with an active transaction; io_ok is whether the
\* database write transaction succeeds.  The buffer is taken in both cases.
commit_transaction(s, io_ok) ==
    IF io_ok
    THEN [s EXCEPT !.db = CommitBatch(s.db, Unwrap(s.tx_buffer)), !.tx_buffer = None]
    ELSE [s EXCEPT !.tx_buffer = None]

\* A rollback that writes the buffer out before dropping it.
rollback_transaction_flushing(s) ==
    IF IsSome(s.tx_buffer)
    THEN [s EXCEPT !.db = CommitBatch(s.db, Unwrap(s.tx_buffer)), !.tx_buffer = None,
                   !.changed_accounts = <<>>]
    ELSE [s EXCEPT !.changed_accounts = <<>>]

rollback_transaction(s) ==
    [s EXCEPT !.tx_buffer = None, !.changed_accounts = <<>>]

get_changed_accounts(s) == s.changed_accounts

SetStore(s) ==
    /\ db' = s.db
    /\ tx_buffer' = s.tx_buffer
    /\ changed_accounts' = s.changed_accounts

(***************************************************************************)
(* Store harness: a client calling the StateDatabase operations of a       *)
(* RedbStateDB in any order, in direct mode and inside transactions.       *)
(***************************************************************************)
GenesisTables ==
    [EmptyTables EXCEPT
        !.accounts["A"] = Some(serialize_account(Account(1, 10, EMPTY_CODE_HASH))),
        !.accounts["B"] = Some(serialize_account(with_balance(3))),
        !.accounts["D"] = Some(serialize_account(Account(1, 0, "hD"))),
        !.storage[<<"D", 1>>] = Some(1),
        !.code["hD"] = Some(CodeOf("hD"))]

HarnessAddresses == {"A", "D"}
HarnessAccounts == {with_balance(1), Account(1, 2, "hD")}
HarnessValues == {0, 2}
HarnessCodeHashes == {"hC"}
HarnessBlockNumbers == {0}

\* A block as the pipeline hands it to save_block: header and transactions.
HarnessBlock(n) ==
    [header |-> [number |-> n, tx_count |-> 0, transactions_root |-> None,
                 state_root |-> None, gas_used |-> None, gas_limit |-> None,
                 receipts_root |-> None],
     transactions |-> <<>>]

(***************************************************************************)
(* Transactions and blocks                                                 *)
(***************************************************************************)
\* 1 Gwei, the gas price assumed by the pre-validation when the transaction
\* carries none; balances are counted in Gwei.
DefaultGasPrice == 1
\* The block gas limit of the producer, in gas units of the model.
DEFAULT_BLOCK_GAS_LIMIT == 30

\* A transaction as the producer reads it from the log.
ProducerTx(from, to, value, data, gas, nonce, hash) ==
    [from |-> from, to |-> to, value |-> value, data |-> data, gas |-> gas,
     nonce |-> nonce, hash |-> hash]

\* data is hex text: "0x" is empty call data, "0x60" init or call data, and
\* "0xzz" is text that does not decode.
data_bytes(tx) == IF tx.data = "0xzz" THEN None ELSE Some(tx.data)

Txs ==
    {ProducerTx("A", Some("B"), 1, "0x", 2, 1, Some("0xaa")),
     ProducerTx("A", Some("B"), 1, "0x", 2, 2, None),
     ProducerTx("B", Some("A"), 1, "0x", 2, 0, Some("0xaa")),
     ProducerTx("B", Some("A"), 3, "0x", 2, 0, None),
     ProducerTx("A", Some("B"), 0, "0x", 0, 1, None),
     ProducerTx("A", Some("B"), 1, "0x", 2, 0, None),
     ProducerTx("A", None, 0, "0x60", 3, 1, Some("0xcc")),
     ProducerTx("A", Some("C"), 0, "0x60", 2, 2, None),
     ProducerTx("A", Some("D"), 0, "0x60", 2, 1, Some("0xdd")),
     ProducerTx("A", Some("B"), 0, "0xzz", 2, 1, None)}

\* The candidates come out of the pool sorted by their gas field, descending.
Blocks ==
    {<<t>> : t \in Txs} \cup {q \in Txs \X Txs : q[2].gas <= q[1].gas}

\* sha256 over the JSON of the transactions, printed as hex.
calculate_transactions_root(transactions) == <<"0x", "sha256", transactions>>

convert_to_schema_block(b) ==
    [header |-> [number |-> b.header.number,
                 tx_count |-> Len(b.transactions),
                 transactions_root |-> b.header.transactions_root,
                 state_root |-> b.header.state_root,
                 gas_used |-> b.header.gas_used,
                 gas_limit |-> b.header.gas_limit,
                 receipts_root |-> b.header.receipts_root],
     transactions |-> [i \in DOMAIN b.transactions |->
        [from |-> b.transactions[i].from, to |-> b.transactions[i].to,
         value |-> b.transactions[i].value, data |-> b.transactions[i].data,
         gas |-> b.transactions[i].gas, nonce |-> b.transactions[i].nonce,
         hash |-> b.transactions[i].hash, gas_price |-> None, chain_id |-> None]]]

(***************************************************************************)
(* ExecutorError and Result                                                *)
(***************************************************************************)
Ok(v) == [ok |-> TRUE, value |-> v]
Err(e) == [ok |-> FALSE, error |-> e]

\* An Evm error is treated as recoverable.
is_fatal_database_only(e) == e = "Database"

is_fatal(e) == e \in {"Database", "Evm"}

(***************************************************************************)
(* TransactionExecutor                                                     *)
(***************************************************************************)
\* The ExecutorError values of the pre-validation.
InvalidGas == [kind |-> "InvalidGas"]
NonceTooLow(expected, got) == [kind |-> "NonceTooLow", expected |-> expected, got |-> got]
InsufficientFunds(required, available) ==
    [kind |-> "InsufficientFunds", required |-> ToString(required),
     available |-> ToString(available)]
ExecutorError_Transaction(text) == [kind |-> "Transaction", text |-> text]

\* A required balance that leaves the transferred value out.
calculate_required_balance_without_value(tx) ==
    LET gas_price == IF IsSome(tx.gas_price) THEN Unwrap(tx.gas_price) ELSE DefaultGasPrice
        gas_cost == tx.gas * gas_price
    IN  IF gas_cost > MaxU256
        THEN Err(ExecutorError_Transaction("Gas cost overflow"))
        ELSE Ok(gas_cost)

\* checked_mul and checked_add on U256.
calculate_required_balance(tx) ==
    LET gas_price == IF IsSome(tx.gas_price) THEN Unwrap(tx.gas_price) ELSE DefaultGasPrice
        gas_cost == tx.gas * gas_price
        total == gas_cost + tx.value
    IN  IF gas_cost > MaxU256
        THEN Err(ExecutorError_Transaction("Gas cost overflow"))
        ELSE IF total > MaxU256
        THEN Err(ExecutorError_Transaction("Total cost overflow"))
        ELSE Ok(total)

\* A nonce check that also rejects the nonce equal to the account nonce.
validate_transaction_nonce_inclusive(s, tx) ==
    LET account == get_account(s, tx.from)
        required == calculate_required_balance(tx)
        available == IF IsSome(account) THEN Unwrap(account).balance ELSE 0
    IN  IF tx.gas = 0
        THEN Err(InvalidGas)
        ELSE IF IsSome(account) /\ tx.nonce <= Unwrap(account).nonce
        THEN Err(NonceTooLow(Unwrap(account).nonce, tx.nonce))
        ELSE IF ~required.ok
        THEN required
        ELSE IF available < required.value
        THEN Err(InsufficientFunds(required.value, available))
        ELSE Ok("unit")

validate_transaction(s, tx) ==
    LET account == get_account(s, tx.from)
        required == calculate_required_balance(tx)
        available == IF IsSome(account) THEN Unwrap(account).balance ELSE 0
    IN  IF tx.gas = 0
        THEN Err(InvalidGas)
        ELSE IF IsSome(account) /\ tx.nonce < Unwrap(account).nonce
        THEN Err(NonceTooLow(Unwrap(account).nonce, tx.nonce))
        ELSE IF ~required.ok
        THEN required
        ELSE IF available < required.value
        THEN Err(InsufficientFunds(required.value, available))
        ELSE Ok("unit")

\* An environment that leaves the gas price at its default.
build_tx_env_without_gas_price(tx) ==
    IF data_bytes(tx) = None
    THEN Err("Transaction")
    ELSE Ok([caller |-> tx.from,
             transact_to |-> tx.to,
             value |-> tx.value,
             data |-> Unwrap(data_bytes(tx)),
             gas_limit |-> tx.gas,
             nonce |-> Some(tx.nonce),
             gas_price |-> 0])

\* transact_to is None for TransactTo::Create.
build_tx_env(tx) ==
    IF data_bytes(tx) = None
    THEN Err("Transaction")
    ELSE Ok([caller |-> tx.from,
             transact_to |-> tx.to,
             value |-> tx.value,
             data |-> Unwrap(data_bytes(tx)),
             gas_limit |-> tx.gas,
             nonce |-> Some(tx.nonce),
             gas_price |-> IF IsSome(tx.gas_price) THEN Unwrap(tx.gas_price) ELSE 0])

(***************************************************************************)
(* CachedRedbState                                                         *)
(***************************************************************************)
EmptyBytecode == <<"code", EMPTY_CODE_HASH>>
AccountInfo(balance, nonce, code_hash, code) ==
    [balance |-> balance, nonce |-> nonce, code_hash |-> code_hash, code |-> code]

CachedRedbState_new == [a \in Addresses |-> None]

basic(s, c, address) ==
    IF IsSome(c[address])
    THEN Unwrap(c[address])
    ELSE LET account == get_account(s, address) IN
         IF IsSome(account)
         THEN AccountInfo(Unwrap(account).balance, Unwrap(account).nonce, Unwrap(account).code_hash, None)
         ELSE AccountInfo(0, 0, EMPTY_CODE_HASH, None)

\* The cache after basic was called for every address of the set.
basic_cached(s, c, loaded) ==
    [a \in Addresses |-> IF a \in loaded THEN Some(basic(s, c, a)) ELSE c[a]]

\* None stands for DbError::CodeNotFound.
code_by_hash(s, code_hash) ==
    IF code_hash = EMPTY_CODE_HASH THEN Some(EmptyBytecode) ELSE get_code(s, code_hash)

storage(s, address, idx) == get_storage(s, address, idx)

(***************************************************************************)
(* The interpreter behind Evm::transact, reading through CachedRedbState.  *)
(* Contract code is arbitrary: a call into code may write slot 1, destroy  *)
(* the contract, revert or halt.                                           *)
(***************************************************************************)
Coinbase == "Z"
create_address(caller, nonce) == "C"
NoSlots == [k \in Keys |-> None]
NoState == [a \in Addresses |-> None]
EvmAccount(info, status, slots) == [info |-> info, status |-> status, storage |-> slots]

\* EVMError: transact returns no state.
EvmError(e, loaded, code_loaded) ==
    [error |-> Some(e), result |-> None, state |-> NoState,
     loaded |-> loaded, code_loaded |-> code_loaded, slots_loaded |-> {}]

\* ResultAndState, with the addresses, codes and slots read on the way.
ResultAndState(kind, gas_used, created, state, loaded, code_loaded, slots_loaded) ==
    [error |-> None,
     result |-> Some([kind |-> kind, gas_used |-> gas_used, created |-> created]),
     state |-> state, loaded |-> loaded, code_loaded |-> code_loaded,
     slots_loaded |-> slots_loaded]

Transact(s, c, env) ==
    LET caller == env.caller
        info == basic(s, c, caller)
        is_create == env.transact_to = None
        target == IF is_create THEN create_address(caller, Unwrap(env.nonce))
                               ELSE Unwrap(env.transact_to)
        tinfo == basic(s, c, target)
        code == code_by_hash(s, tinfo.code_hash)
        intrinsic == IF is_create THEN 2 ELSE 1
        loaded == {caller, Coinbase, target}
        Load(J, a) ==
            IF IsSome(J[a]) THEN J
            ELSE [J EXCEPT ![a] = Some(EvmAccount(basic(s, c, a), {}, NoSlots))]
        Update(J, a, d_balance, d_nonce) ==
            [Load(J, a) EXCEPT ![a] = Some([Unwrap(@) EXCEPT
                !.info.balance = @ + d_balance,
                !.info.nonce = @ + d_nonce,
                !.status = @ \cup {"Touched"}])]
        Transfer(J, from, to, v) == Update(Update(J, from, 0 - v, 0), to, v, 0)
        WithCode(J, a, bytecode) ==
            [Load(J, a) EXCEPT ![a] = Some([Unwrap(@) EXCEPT !.info.code = Some(bytecode)])]
        \* caller charged and its nonce bumped, beneficiary rewarded
        Pre(g) == Update(Update(Load(NoState, caller), caller, 0 - g * env.gas_price, 1),
                         Coinbase, g * env.gas_price, 0)
        Entered(g) == WithCode(Transfer(Pre(g), caller, target, env.value), target, Unwrap(code))
        Aborted(g) == WithCode(Load(Pre(g), target), target, Unwrap(code))
        Stored(v) ==
            [Entered(2) EXCEPT ![target] = Some([Unwrap(@) EXCEPT
                !.storage[1] = Some([original_value |-> storage(s, target, 1),
                                     present_value |-> v])])]
        Destroyed ==
            LET J == Entered(2)
                K == Transfer(J, target, caller, Unwrap(J[target]).info.balance)
            IN  [K EXCEPT ![target] = Some([Unwrap(@) EXCEPT !.status = @ \cup {"SelfDestructed"}])]
        Deployed ==
            LET J == Transfer(Pre(3), caller, target, env.value)
            IN  [J EXCEPT ![target] = Some([Unwrap(@) EXCEPT
                    !.info.nonce = 1,
                    !.info.code_hash = "hC",
                    !.info.code = Some(CodeOf("hC")),
                    !.status = @ \cup {"Created"}])]
    IN  IF env.gas_limit < intrinsic
        THEN {EvmError("CallGasCostMoreThanGasLimit", {}, {})}
        ELSE IF info.code_hash # EMPTY_CODE_HASH
        THEN {EvmError("RejectCallerWithCode", {caller}, {})}
        ELSE IF Unwrap(env.nonce) > info.nonce
        THEN {EvmError("NonceTooHigh", {caller}, {})}
        ELSE IF Unwrap(env.nonce) < info.nonce
        THEN {EvmError("NonceTooLow", {caller}, {})}
        ELSE IF env.gas_limit * env.gas_price + env.value > info.balance
        THEN {EvmError("LackOfFundForMaxFee", {caller}, {})}
        ELSE IF is_create
        THEN IF tinfo.nonce # 0 \/ tinfo.code_hash # EMPTY_CODE_HASH \/ env.gas_limit < 3
             THEN {ResultAndState("Halt", env.gas_limit, None,
                                  Load(Pre(env.gas_limit), target), loaded, {}, {})}
             ELSE {ResultAndState("Success", 3, Some(target), Deployed, loaded, {}, {})}
        ELSE IF tinfo.code_hash = EMPTY_CODE_HASH
        THEN {ResultAndState("Success", 1, None,
                             WithCode(Transfer(Pre(1), caller, target, env.value), target, EmptyBytecode),
                             loaded, {}, {})}
        ELSE IF code = None
        THEN {EvmError("Database", loaded, {target})}
        ELSE IF env.gas_limit < 2
        THEN {ResultAndState("Halt", env.gas_limit, None, Aborted(env.gas_limit), loaded, {target}, {})}
        ELSE {ResultAndState("Success", 2, None, Stored(v), loaded, {target}, {<<target, 1>>}) :
                  v \in {0, 2}}
             \cup {ResultAndState("Success", 2, None, Destroyed, loaded, {target}, {}),
                   ResultAndState("Revert", 2, None, Aborted(2), loaded, {target}, {}),
                   ResultAndState("Halt", env.gas_limit, None, Aborted(env.gas_limit), loaded, {target}, {})}

(***************************************************************************)
(* RevmAdapter                                                             *)
(***************************************************************************)
\* The changed slots of one account, written in any order (they commute).
RECURSIVE apply_slots(_, _, _, _)
apply_slots(s, address, slots, keys) ==
    IF keys = {}
    THEN s
    ELSE LET k == CHOOSE x \in keys : TRUE
             rest == apply_slots(s, address, slots, keys \ {k})
         IN  IF IsSome(slots[k]) /\ Unwrap(slots[k]).present_value # Unwrap(slots[k]).original_value
             THEN set_storage(rest, address, k, Unwrap(slots[k]).present_value)
             ELSE rest

\* A self-destructed account written back like any touched account.
apply_account_without_selfdestruct(s, address, account) ==
    IF "Touched" \in account.status
    THEN LET acc == [DefaultAccount EXCEPT !.balance = account.info.balance,
                                           !.nonce = account.info.nonce,
                                           !.code_hash = account.info.code_hash]
             s1 == set_account(s, address, acc)
             s2 == IF /\ IsSome(account.info.code)
                      /\ account.info.code_hash # EMPTY_CODE_HASH
                      /\ Unwrap(account.info.code) # EmptyBytecode
                   THEN set_code(s1, account.info.code_hash, Unwrap(account.info.code))
                   ELSE s1
         IN  apply_slots(s2, address, account.storage, Keys)
    ELSE s

apply_account(s, address, account) ==
    IF "SelfDestructed" \in account.status
    THEN delete_account(s, address)
    ELSE IF "Touched" \in account.status
    THEN LET acc == [DefaultAccount EXCEPT !.balance = account.info.balance,
                                           !.nonce = account.info.nonce,
                                           !.code_hash = account.info.code_hash]
             s1 == set_account(s, address, acc)
             s2 == IF /\ IsSome(account.info.code)
                      /\ account.info.code_hash # EMPTY_CODE_HASH
                      /\ Unwrap(account.info.code) # EmptyBytecode
                   THEN set_code(s1, account.info.code_hash, Unwrap(account.info.code))
                   ELSE s1
         IN  apply_slots(s2, address, account.storage, Keys)
    ELSE s

\* The entries of result.state that apply_state_changes acts upon.
Written(state) ==
    {a \in Addresses : IsSome(state[a]) /\
        Unwrap(state[a]).status \cap {"Touched", "SelfDestructed"} # {}}

\* The orders in which a HashMap may hand out the entries of a set.
Orders(S) ==
    {q \in [1..Cardinality(S) -> S] : \A i, j \in 1..Cardinality(S) : q[i] = q[j] => i = j}

\* apply_state_changes, the entries of result.state visited in the given order.
RECURSIVE apply_state_changes(_, _, _)
apply_state_changes(s, state, order) ==
    IF order = <<>>
    THEN s
    ELSE apply_state_changes(apply_account(s, Head(order), Unwrap(state[Head(order)])),
                             state, Tail(order))

\* A revert reported as an error, like a halt.
convert_result_revert_is_error(result) ==
    IF result.kind = "Success"
    THEN Ok([gas_used |-> result.gas_used, success |-> TRUE,
             contract_address |-> result.created, logs |-> <<>>])
    ELSE Err("Evm")

convert_result(result) ==
    IF result.kind = "Success"
    THEN Ok([gas_used |-> result.gas_used, success |-> TRUE,
             contract_address |-> result.created, logs |-> <<>>])
    ELSE IF result.kind = "Revert"
    THEN Ok([gas_used |-> result.gas_used, success |-> FALSE,
             contract_address |-> None, logs |-> <<>>])
    ELSE Err("Evm")

(***************************************************************************)
(* Receipts and roots                                                      *)
(***************************************************************************)
tx_hash_of(tx, idx) == IF IsSome(tx.hash) THEN Unwrap(tx.hash) ELSE "tx_" \o ToString(idx)

\* The hash texts that are "0x" followed by 64 hex digits.
HexHashes == {"0xaa", "0xcc", "0xdd"}
tx_hash_b256(tx_hash) ==
    IF tx_hash \in HexHashes THEN <<"b256", tx_hash>> ELSE <<"sha256", tx_hash>>

ReceiptBuilder_build(tx_hash, tx_index, blk, tx, result, cumulative_gas_used) ==
    [transaction_hash |-> tx_hash,
     transaction_index |-> tx_index,
     block_number |-> blk.header.number,
     from |-> tx.from,
     to |-> tx.to,
     contract_address |-> result.contract_address,
     gas_used |-> result.gas_used,
     cumulative_gas_used |-> cumulative_gas_used,
     status |-> IF result.success THEN 1 ELSE 0,
     logs |-> <<>>,
     logs_bloom |-> "zero_bloom"]

\* The keys the two HashMaps of execute_block can hold.
TxKeys == {tx_hash_of(t, i) : t \in Txs, i \in {0, 1}}
HashMap_new == [k \in TxKeys |-> None]

hash_key(x) == <<"keccak", x>>
rlp_encode_account(nonce, balance, storage_root, code_hash) ==
    <<nonce, balance, storage_root, code_hash>>
rlp_transaction(tx) == <<tx.from, tx.to, tx.value, tx.data, tx.gas, tx.nonce>>
rlp_receipt(r) == <<r.status, r.cumulative_gas_used, r.logs_bloom, r.logs>>

EMPTY_STATE_ROOT == {}
EMPTY_ROOT_HASH == {}

StorageRootCalculator_calculate(s, address) ==
    {<<hash_key(slot.key), slot.value>> :
        slot \in {x \in get_all_storage(s, address) : x.value # 0}}

process_account(s, address) ==
    LET account == get_account(s, address) IN
    IF account = None
    THEN Err("Database")
    ELSE Ok(<<hash_key(address),
              rlp_encode_account(Unwrap(account).nonce, Unwrap(account).balance,
                                 StorageRootCalculator_calculate(s, address),
                                 Unwrap(account).code_hash)>>)

calculate_incremental(s) ==
    LET changed == get_changed_accounts(s) IN
    IF changed = <<>>
    THEN Ok(EMPTY_STATE_ROOT)
    ELSE IF \E a \in Range(changed) : ~process_account(s, a).ok
    THEN Err("Database")
    ELSE Ok({process_account(s, a).value : a \in Range(changed)})

\* StateRootCalculator::calculate, the full mode.
StateRootCalculator_calculate(s) == calculate_incremental(s)

\* RedbStateDB::new on the database file of s: the same tables, no buffer, an
\* empty changed-accounts list.
Reopened(s) == [db |-> s.db, tx_buffer |-> None, changed_accounts |-> <<>>]

calculate_state_root(s) ==
    IF calculate_incremental(s).ok THEN calculate_incremental(s) ELSE Err("Other")

\* Encodable::encode of the item type: a receipt or a transaction.
rlp_encode(item) ==
    IF "cumulative_gas_used" \in DOMAIN item THEN rlp_receipt(item) ELSE rlp_transaction(item)

calculate_merkle_root(items) ==
    IF items = <<>>
    THEN EMPTY_ROOT_HASH
    ELSE {<<hash_key(i - 1), rlp_encode(items[i])>> : i \in DOMAIN items}

\* format!("0x{}", hex::encode(root))
Hex(root) == <<"0x", "hex", root>>

(***************************************************************************)
(* The state the applied deltas of a block amount to, and the reads of the *)
(* interpreter next to it.                                                 *)
(***************************************************************************)
InfoOf(account) ==
    IF IsSome(account)
    THEN [balance |-> Unwrap(account).balance, nonce |-> Unwrap(account).nonce,
          code_hash |-> Unwrap(account).code_hash]
    ELSE [balance |-> 0, nonce |-> 0, code_hash |-> EMPTY_CODE_HASH]

WorldOf(tables) ==
    LET s == [db |-> tables, tx_buffer |-> None, changed_accounts |-> <<>>] IN
    [info |-> [a \in Addresses |-> InfoOf(get_account(s, a))],
     storage |-> [sk \in StorageKeys |-> get_storage(s, sk[1], sk[2])],
     code |-> [h \in CodeHashes |-> get_code(s, h)],
     destroyed |-> {}]

ApplyWorld(w, state) ==
    LET destroyed(a) == a \in Written(state) /\ "SelfDestructed" \in Unwrap(state[a]).status
        touched(a) == a \in Written(state) /\ ~destroyed(a)
    IN
    [info |-> [a \in Addresses |->
        IF destroyed(a) THEN InfoOf(None)
        ELSE IF touched(a)
        THEN [balance |-> Unwrap(state[a]).info.balance, nonce |-> Unwrap(state[a]).info.nonce,
              code_hash |-> Unwrap(state[a]).info.code_hash]
        ELSE w.info[a]],
     storage |-> [sk \in StorageKeys |->
        IF destroyed(sk[1]) THEN 0
        ELSE IF touched(sk[1]) /\ IsSome(Unwrap(state[sk[1]]).storage[sk[2]])
        THEN Unwrap(Unwrap(state[sk[1]]).storage[sk[2]]).present_value
        ELSE w.storage[sk]],
     code |-> [h \in CodeHashes |->
        IF \E a \in Addresses : touched(a) /\ "Created" \in Unwrap(state[a]).status
                                /\ Unwrap(state[a]).info.code_hash = h
        THEN Some(CodeOf(h))
        ELSE w.code[h]],
     \* the accounts whose last applied delta was a self-destruct
     destroyed |-> {a \in Addresses : destroyed(a) \/ (a \in w.destroyed /\ ~touched(a))}]

NoReads == [info |-> <<>>, code |-> <<>>, storage |-> <<>>]

\* What the interpreter read for one transact, and what the world holds there.
ReadsOf(s, c, w, out) ==
    [read |->
        [info |-> [a \in out.loaded |-> [balance |-> basic(s, c, a).balance,
                                         nonce |-> basic(s, c, a).nonce,
                                         code_hash |-> basic(s, c, a).code_hash]],
         code |-> [a \in out.code_loaded |-> code_by_hash(s, basic(s, c, a).code_hash)],
         storage |-> [sk \in out.slots_loaded |-> storage(s, sk[1], sk[2])]],
     expected |->
        [info |-> [a \in out.loaded |-> w.info[a]],
         code |-> [a \in out.code_loaded |->
                    IF w.info[a].code_hash = EMPTY_CODE_HASH
                    THEN Some(EmptyBytecode)
                    ELSE w.code[w.info[a].code_hash]],
         storage |-> [sk \in out.slots_loaded |-> w.storage[sk]]]]

(***************************************************************************)
(* BlockProducer and BlockExecutor: one block at a time goes from the pool *)
(* through execute_block, the roots and save_block.                        *)
(***************************************************************************)
CurrentTx == Unwrap(schema_block).transactions[index + 1]
InLoop == pc = "execute" /\ index < Len(Unwrap(schema_block).transactions)

\* produce_block up to the conversion of the block in submit_to_execution_layer:
\* the store is opened anew and a new executor is built on it.
ProduceBlock ==
    /\ pc = "idle"
    /\ txs_left > 0
    /\ current_block_number <= MaxBlockNumber
    /\ \E transactions \in Blocks :
        /\ Len(transactions) <= txs_left
        /\ txs_left' = txs_left - Len(transactions)
        /\ LET b == [header |-> [number |-> current_block_number,
                                 tx_count |-> Len(transactions),
                                 transactions_root |-> calculate_transactions_root(transactions),
                                 state_root |-> None,
                                 gas_used |-> None,
                                 gas_limit |-> Some(DEFAULT_BLOCK_GAS_LIMIT),
                                 receipts_root |-> None],
                     transactions |-> transactions]
           IN  /\ block' = Some(b)
               /\ schema_block' = Some(convert_to_schema_block(b))
    /\ tx_buffer' = None
    /\ changed_accounts' = <<>>
    /\ cache' = CachedRedbState_new
    /\ exec_result' = None
    /\ submit_result' = None
    /\ pc' = "begin"
    /\ trace' = <<>>
    /\ UNCHANGED <<db, index, execution_results, receipts, total_gas_used, successful_txs,
                   failed_txs, current_block_number, snapshot, world, interp,
                   store_observers, writes, validation, walrus_vars, pool_vars>>

\* execute_block: the locals and begin_transaction.
ExecuteBlockBegin ==
    /\ pc = "begin"
    /\ SetStore(begin_transaction(Store))
    /\ index' = 0
    /\ execution_results' = HashMap_new
    /\ receipts' = HashMap_new
    /\ total_gas_used' = 0
    /\ successful_txs' = 0
    /\ failed_txs' = 0
    /\ pc' = "execute"
    /\ snapshot' = db
    /\ world' = WorldOf(db)
    /\ UNCHANGED <<cache, exec_result, producer_vars, interp, trace, store_observers, writes, validation, walrus_vars, pool_vars,
                   txs_left>>

\* A validation that also charges the gas of the rejected transaction.
SkipInvalidTransaction_charging ==
    /\ InLoop
    /\ ~validate_transaction(Store, CurrentTx).ok
    /\ failed_txs' = failed_txs + 1
    /\ total_gas_used' = total_gas_used + CurrentTx.gas
    /\ index' = index + 1
    /\ trace' = Append(trace, "invalid")
    /\ UNCHANGED <<store_vars, cache, pc, execution_results, receipts,
                   successful_txs, exec_result, producer_vars, snapshot, world, interp,
                   store_observers, writes, validation, walrus_vars, pool_vars, txs_left>>

\* The pre-validation fails: the transaction is skipped.
SkipInvalidTransaction ==
    /\ InLoop
    /\ ~validate_transaction(Store, CurrentTx).ok
    /\ failed_txs' = failed_txs + 1
    /\ index' = index + 1
    /\ trace' = Append(trace, "invalid")
    /\ UNCHANGED <<store_vars, cache, pc, execution_results, receipts, total_gas_used,
                   successful_txs, exec_result, producer_vars, snapshot, world, interp,
                   store_observers, writes, validation, walrus_vars, pool_vars, txs_left>>

\* The pre-validation fails because the read of the sender's account fails
\* (get_account returns a DbError, validate_transaction a Database error): the
\* loop treats it as any other validation failure.
SkipUnreadableTransaction ==
    /\ InLoop
    /\ CurrentTx.gas # 0
    /\ failed_txs' = failed_txs + 1
    /\ index' = index + 1
    /\ trace' = Append(trace, "unreadable")
    /\ UNCHANGED <<store_vars, cache, pc, execution_results, receipts, total_gas_used,
                   successful_txs, exec_result, producer_vars, snapshot, world, interp,
                   store_observers, writes, validation, walrus_vars, pool_vars, txs_left>>

\* An execute that forgets to apply the state changes.
RevmAdapter_execute_without_apply(s, c, out, order) ==
    IF IsSome(out.error)
    THEN [result |-> Err("Evm"), store |-> s, cache |-> basic_cached(s, c, out.loaded),
          out |-> Some(out)]
    ELSE [result |-> convert_result(Unwrap(out.result)),
          store |-> s,
          cache |-> CachedRedbState_new,
          out |-> Some(out)]

\* RevmAdapter::execute for one outcome of transact and one iteration order.
RevmAdapter_execute(s, c, out, order) ==
    IF IsSome(out.error)
    THEN [result |-> Err("Evm"), store |-> s, cache |-> basic_cached(s, c, out.loaded),
          out |-> Some(out)]
    ELSE [result |-> convert_result(Unwrap(out.result)),
          store |-> apply_state_changes(s, out.state, order),
          cache |-> CachedRedbState_new,
          out |-> Some(out)]

\* TransactionExecutor::execute: every way it may run on the given state.
TransactionExecutor_execute(s, c, tx) ==
    LET env == build_tx_env(tx) IN
    IF ~env.ok
    THEN {[result |-> Err(env.error), store |-> s, cache |-> c, out |-> None]}
    ELSE UNION {{RevmAdapter_execute(s, c, out, order) : order \in Orders(Written(out.state))} :
                    out \in Transact(s, c, env.value)}

Outcome(run) ==
    IF run.out = None THEN "rejected"
    ELSE IF IsSome(Unwrap(run.out).error) THEN "error"
    ELSE Unwrap(Unwrap(run.out).result).kind

\* What the observers note of one run of execute.
Observe(run) ==
    /\ trace' = Append(trace, Outcome(run))
    /\ interp' = IF IsSome(run.out) THEN ReadsOf(Store, cache, world, Unwrap(run.out)) ELSE interp
    /\ world' = IF IsSome(run.out) /\ Unwrap(run.out).error = None
                THEN ApplyWorld(world, Unwrap(run.out).state)
                ELSE world

\* execute returns Ok: gas, counters, receipt and result are recorded.
RecordExecution ==
    /\ InLoop
    /\ validate_transaction(Store, CurrentTx).ok
    /\ \E run \in TransactionExecutor_execute(Store, cache, CurrentTx) :
        /\ run.result.ok
        /\ LET result == run.result.value
               tx_hash == tx_hash_of(CurrentTx, index)
           IN  /\ total_gas_used' = total_gas_used + result.gas_used
               /\ successful_txs' = IF result.success THEN successful_txs + 1 ELSE successful_txs
               /\ failed_txs' = IF result.success THEN failed_txs ELSE failed_txs + 1
               /\ receipts' = [receipts EXCEPT ![tx_hash] =
                    Some(ReceiptBuilder_build(tx_hash_b256(tx_hash), index, Unwrap(schema_block),
                                              CurrentTx, result, total_gas_used + result.gas_used))]
               /\ execution_results' = [execution_results EXCEPT ![tx_hash] = Some(result)]
        /\ SetStore(run.store)
        /\ cache' = run.cache
        /\ Observe(run)
    /\ index' = index + 1
    /\ UNCHANGED <<pc, exec_result, producer_vars, snapshot, store_observers, writes, validation, walrus_vars, pool_vars, txs_left>>

\* A fatal error returned without the rollback.
AbortBlock_without_rollback ==
    /\ InLoop
    /\ validate_transaction(Store, CurrentTx).ok
    /\ \E run \in TransactionExecutor_execute(Store, cache, CurrentTx) :
        /\ ~run.result.ok
        /\ is_fatal(run.result.error)
        /\ SetStore(run.store)
        /\ cache' = run.cache
        /\ exec_result' = Some(Err(run.result.error))
        /\ Observe(run)
    /\ submit_result' = Some(Err("Block execution failed"))
    /\ pc' = "idle"
    /\ UNCHANGED <<index, execution_results, receipts, total_gas_used, successful_txs,
                   failed_txs, block, schema_block, current_block_number, snapshot,
                   store_observers, writes, validation, walrus_vars, pool_vars, txs_left>>

\* execute returns a fatal error: the block transaction is rolled back and
\* execute_block, and with it submit_to_execution_layer, returns the error.
AbortBlock ==
    /\ InLoop
    /\ validate_transaction(Store, CurrentTx).ok
    /\ \E run \in TransactionExecutor_execute(Store, cache, CurrentTx) :
        /\ ~run.result.ok
        /\ is_fatal(run.result.error)
        /\ SetStore(rollback_transaction(run.store))
        /\ cache' = run.cache
        /\ exec_result' = Some(Err(run.result.error))
        /\ Observe(run)
    /\ submit_result' = Some(Err("Block execution failed"))
    /\ pc' = "idle"
    /\ UNCHANGED <<index, execution_results, receipts, total_gas_used, successful_txs,
                   failed_txs, block, schema_block, current_block_number, snapshot,
                   store_observers, writes, validation, walrus_vars, pool_vars, txs_left>>

\* A skipped transaction that is not counted.
SkipFailedTransaction_uncounted ==
    /\ InLoop
    /\ validate_transaction(Store, CurrentTx).ok
    /\ \E run \in TransactionExecutor_execute(Store, cache, CurrentTx) :
        /\ ~run.result.ok
        /\ ~is_fatal(run.result.error)
        /\ SetStore(run.store)
        /\ cache' = run.cache
        /\ Observe(run)
    /\ index' = index + 1
    /\ UNCHANGED <<pc, execution_results, receipts, total_gas_used, successful_txs, failed_txs,
                   exec_result, producer_vars, snapshot, store_observers, writes, validation, walrus_vars, pool_vars,
                   txs_left>>

\* execute returns an error that is not fatal: the transaction is skipped.
SkipFailedTransaction ==
    /\ InLoop
    /\ validate_transaction(Store, CurrentTx).ok
    /\ \E run \in TransactionExecutor_execute(Store, cache, CurrentTx) :
        /\ ~run.result.ok
        /\ ~is_fatal(run.result.error)
        /\ SetStore(run.store)
        /\ cache' = run.cache
        /\ Observe(run)
    /\ failed_txs' = failed_txs + 1
    /\ index' = index + 1
    /\ UNCHANGED <<pc, execution_results, receipts, total_gas_used, successful_txs,
                   exec_result, producer_vars, snapshot, store_observers, writes, validation, walrus_vars, pool_vars, txs_left>>

\* The loop is over: commit_transaction, and execute_block returns.
CommitBlock ==
    /\ pc = "execute"
    /\ index = Len(Unwrap(schema_block).transactions)
    /\ \E io_ok \in BOOLEAN :
        /\ SetStore(commit_transaction(Store, io_ok))
        /\ IF io_ok
           THEN /\ exec_result' = Some(Ok("BlockExecutionResult"))
                /\ pc' = "executed"
                /\ UNCHANGED submit_result
           ELSE /\ exec_result' = Some(Err("Database"))
                /\ submit_result' = Some(Err("Block execution failed"))
                /\ pc' = "idle"
    /\ UNCHANGED <<cache, index, execution_results, receipts, total_gas_used, successful_txs,
                   failed_txs, block, schema_block, current_block_number, snapshot,
                   block_observers, store_observers, writes, validation, walrus_vars, pool_vars, txs_left>>

\* The values of a HashMap, in any order.
Values_of(map) ==
    LET present == {k \in DOMAIN map : IsSome(map[k])} IN
    {[i \in 1..Cardinality(present) |-> Unwrap(map[q[i]])] : q \in Orders(present)}

\* The state root, the transactions root and the receipts root are computed
\* and written into the header of the producer's block.
SealHeader ==
    /\ pc = "executed"
    /\ LET state_root == calculate_state_root(Store)
           transactions_root == calculate_merkle_root(Unwrap(schema_block).transactions)
       IN  IF state_root.ok
           THEN /\ \E receipt_list \in Values_of(receipts) :
                    LET receipts_root == IF receipt_list # <<>>
                                         THEN calculate_merkle_root(receipt_list)
                                         ELSE EMPTY_ROOT_HASH
                    IN  block' = Some([Unwrap(block) EXCEPT
                            !.header.state_root = Some(Hex(state_root.value)),
                            !.header.gas_used = Some(total_gas_used),
                            !.header.transactions_root = Hex(transactions_root),
                            !.header.receipts_root = Some(Hex(receipts_root))])
                /\ pc' = "sealed"
                /\ UNCHANGED submit_result
           ELSE /\ submit_result' = Some(Err("State root calculation failed"))
                /\ pc' = "idle"
                /\ UNCHANGED block
    /\ UNCHANGED <<store_vars, cache, index, execution_results, receipts, total_gas_used,
                   successful_txs, failed_txs, exec_result, schema_block,
                   current_block_number, snapshot, block_observers, store_observers,
                   writes, validation, walrus_vars, pool_vars, txs_left>>

\* save_block of the converted block; on success produce_block moves on to
\* the next block number.
PersistBlock ==
    /\ pc = "sealed"
    /\ \E io_ok \in BOOLEAN :
        IF io_ok
        THEN /\ SetStore(save_block(Store, Unwrap(schema_block)))
             /\ submit_result' = Some(Ok("unit"))
             /\ current_block_number' = current_block_number + 1
        ELSE /\ submit_result' = Some(Err("Failed to save block"))
             /\ UNCHANGED <<store_vars, current_block_number>>
    /\ pc' = "idle"
    /\ UNCHANGED <<cache, index, execution_results, receipts, total_gas_used, successful_txs,
                   failed_txs, exec_result, block, schema_block, snapshot, block_observers,
                   store_observers, writes, validation, walrus_vars, pool_vars, txs_left>>

\* What the client has written inside the active transaction: per address the
\* outcome of its last set_account or delete_account, per slot the value of its
\* last set_storage, and the addresses written in order of their first write.
NoPending ==
    [accounts |-> [a \in Addresses |-> None],
     storage |-> [sk \in StorageKeys |-> None],
     order |-> <<>>]

Touch(p, a) == IF a \in Range(p.order) THEN p.order ELSE Append(p.order, a)

PendingAccount(p, a, outcome) ==
    [p EXCEPT !.accounts[a] = Some(outcome), !.order = Touch(p, a)]

PendingStorage(p, a, k, v) ==
    [p EXCEPT !.storage[<<a, k>>] = Some(v), !.order = Touch(p, a)]

Returned(op, result) ==
    /\ last_call' = [op |-> op, ok |-> result.ok, in_tx |-> IsSome(tx_buffer),
                     error |-> IF result.ok THEN None ELSE Some(result.error)]
    /\ UNCHANGED <<exec_vars, producer_vars, block_observers, txs_left, validation, walrus_vars, pool_vars>>

Called(op, ok) == Returned(op, IF ok THEN Ok(<<>>) ELSE Err("Other"))

Write(op, s, p) ==
    /\ writes < MaxWrites
    /\ writes' = writes + 1
    /\ SetStore(s)
    /\ Called(op, TRUE)
    /\ tx_log' = IF IsSome(tx_buffer) THEN tx_log \cup {op} ELSE tx_log
    /\ pending' = IF IsSome(tx_buffer) THEN p ELSE pending
    /\ UNCHANGED <<snapshot, root_before>>

\* A begin_transaction that starts over with a fresh buffer when one is active.
BeginTransaction_restarting ==
    /\ SetStore(begin_transaction(Store))
    /\ snapshot' = db
    /\ pending' = NoPending
    /\ tx_log' = {}
    /\ Returned("begin_transaction", Ok(<<>>))
    /\ UNCHANGED <<root_before, writes>>

BeginTransaction ==
    /\ IF IsSome(tx_buffer)
       THEN /\ UNCHANGED <<db, tx_buffer, changed_accounts, snapshot, tx_log, pending,
                           root_before>>
            /\ Returned("begin_transaction", Err("Transaction"))
       ELSE /\ SetStore(begin_transaction(Store))
            /\ snapshot' = db
            /\ pending' = NoPending
            /\ UNCHANGED root_before
            /\ last_call' = [op |-> "begin_transaction", ok |-> TRUE, in_tx |-> FALSE,
                             error |-> None]
            /\ UNCHANGED <<exec_vars, producer_vars, block_observers, txs_left, validation, walrus_vars, pool_vars>>
            /\ tx_log' = {}
    /\ UNCHANGED writes

SetAccount == \E a \in HarnessAddresses, acc \in HarnessAccounts :
    Write("set_account", set_account(Store, a, acc), PendingAccount(pending, a, Some(acc)))

DeleteAccount == \E a \in HarnessAddresses :
    Write("delete_account", delete_account(Store, a), PendingAccount(pending, a, None))

SetStorage == \E a \in HarnessAddresses, k \in Keys, v \in HarnessValues :
    Write("set_storage", set_storage(Store, a, k, v), PendingStorage(pending, a, k, v))

SetCode == \E h \in HarnessCodeHashes :
    Write("set_code", set_code(Store, h, CodeOf(h)), pending)

SetBlockHash == \E n \in HarnessBlockNumbers, h \in BlockHashes :
    Write("set_block_hash", set_block_hash(Store, n, h), pending)

SaveBlock == \E n \in HarnessBlockNumbers :
    Write("save_block", save_block(Store, HarnessBlock(n)), pending)

CommitTransaction ==
    /\ IF IsSome(tx_buffer)
       THEN \E io_ok \in BOOLEAN :
                /\ SetStore(commit_transaction(Store, io_ok))
                /\ Called("commit_transaction", io_ok)
       ELSE /\ UNCHANGED <<db, tx_buffer, changed_accounts>>
            /\ Returned("commit_transaction", Err("Transaction"))
    /\ pending' = NoPending
    /\ UNCHANGED <<snapshot, tx_log, root_before, writes>>

RollbackTransaction ==
    /\ SetStore(rollback_transaction(Store))
    /\ Called("rollback_transaction", TRUE)
    /\ pending' = NoPending
    /\ UNCHANGED <<snapshot, tx_log, root_before, writes>>

(***************************************************************************)
(* WalrusStateDB                                                           *)
(***************************************************************************)
\* The write-ahead log: per topic, the entries appended to it, oldest first.
Walrus_new_for_key ==
    [accounts |-> [a \in Addresses |-> <<>>],
     storage |-> [sk \in StorageKeys |-> <<>>],
     code |-> [h \in CodeHashes |-> <<>>],
     block_hashes |-> [n \in BlockNumbers |-> <<>>]]

\* The LRU cache, per kind of key. Its capacity of 10000 entries is never
\* reached by the keys of the model, so nothing is evicted.
StateCache_new ==
    [accounts |-> [a \in Addresses |-> None],
     storage |-> [sk \in StorageKeys |-> None],
     codes |-> [h \in CodeHashes |-> None],
     block_hashes |-> [n \in BlockNumbers |-> None]]

WalrusStateDB_new ==
    [wal |-> Walrus_new_for_key, cache |-> StateCache_new, tx_buffer |-> None,
     changed_accounts |-> <<>>]

\* The last entry of a topic.
read_latest_for_topic(entries) ==
    IF entries = <<>> THEN None ELSE Some(entries[Len(entries)])

Walrus_persist_account(w, address, account) ==
    [w EXCEPT !.wal.accounts[address] = Append(@, serialize_account(account))]

Walrus_persist_storage(w, address, key, value) ==
    [w EXCEPT !.wal.storage[<<address, key>>] = Append(@, value)]

\* A read fills the cache: the result and the store after the read.
Walrus_load_account(w, address) ==
    IF IsSome(w.cache.accounts[address])
    THEN [result |-> w.cache.accounts[address], db |-> w]
    ELSE LET entry == read_latest_for_topic(w.wal.accounts[address]) IN
         IF IsSome(entry)
         THEN LET account == deserialize_account(Unwrap(entry)) IN
              [result |-> Some(account),
               db |-> [w EXCEPT !.cache.accounts[address] = Some(account)]]
         ELSE [result |-> None, db |-> w]

Walrus_load_storage(w, address, key) ==
    IF IsSome(w.cache.storage[<<address, key>>])
    THEN [result |-> Unwrap(w.cache.storage[<<address, key>>]), db |-> w]
    ELSE LET entry == read_latest_for_topic(w.wal.storage[<<address, key>>]) IN
         IF IsSome(entry)
         THEN [result |-> Unwrap(entry),
               db |-> [w EXCEPT !.cache.storage[<<address, key>>] = entry]]
         ELSE [result |-> 0, db |-> w]

Walrus_track_changed_account(w, address) ==
    IF address \in Range(w.changed_accounts)
    THEN w
    ELSE [w EXCEPT !.changed_accounts = Append(@, address)]

Walrus_get_account(w, address) ==
    IF IsSome(w.tx_buffer) /\ IsSome(Unwrap(w.tx_buffer).accounts[address])
    THEN [result |-> Unwrap(w.tx_buffer).accounts[address], db |-> w]
    ELSE IF IsSome(w.tx_buffer) /\ address \in Range(Unwrap(w.tx_buffer).deleted_accounts)
    THEN [result |-> None, db |-> w]
    ELSE Walrus_load_account(w, address)

\* The outcomes of set_account: in a transaction the write is buffered; in
\* direct mode the append to the log succeeds or fails.
Walrus_set_account(w, address, account) ==
    LET t == Walrus_track_changed_account(w, address) IN
    IF IsSome(t.tx_buffer)
    THEN {[result |-> Ok(TRUE),
           db |-> [t EXCEPT !.tx_buffer =
                       Some([Unwrap(@) EXCEPT !.accounts[address] = Some(account)])]]}
    ELSE {[result |-> Ok(TRUE),
           db |-> [Walrus_persist_account(t, address, account)
                       EXCEPT !.cache.accounts[address] = Some(account)]],
          [result |-> Err("Walrus"), db |-> t]}

\* In direct mode a deletion appends the default account to the log.
Walrus_delete_account(w, address) ==
    LET t == Walrus_track_changed_account(w, address) IN
    IF IsSome(t.tx_buffer)
    THEN {[result |-> Ok(TRUE),
           db |-> [t EXCEPT !.tx_buffer =
                       Some([Unwrap(@) EXCEPT !.accounts[address] = None,
                                              !.deleted_accounts = Append(@, address)])]]}
    ELSE {[result |-> Ok(TRUE),
           db |-> [Walrus_persist_account(t, address, DefaultAccount)
                       EXCEPT !.cache.accounts[address] = None]],
          [result |-> Err("Walrus"), db |-> t]}

Walrus_get_storage(w, address, key) ==
    IF IsSome(w.tx_buffer) /\ IsSome(Unwrap(w.tx_buffer).storage[<<address, key>>])
    THEN [result |-> Unwrap(Unwrap(w.tx_buffer).storage[<<address, key>>]), db |-> w]
    ELSE Walrus_load_storage(w, address, key)

Walrus_set_storage(w, address, key, value) ==
    LET t == Walrus_track_changed_account(w, address) IN
    IF IsSome(t.tx_buffer)
    THEN {[result |-> Ok(TRUE),
           db |-> [t EXCEPT !.tx_buffer =
                       Some([Unwrap(@) EXCEPT !.storage[<<address, key>>] = Some(value)])]]}
    ELSE {[result |-> Ok(TRUE),
           db |-> [Walrus_persist_storage(t, address, key, value)
                       EXCEPT !.cache.storage[<<address, key>>] = Some(value)]],
          [result |-> Err("Walrus"), db |-> t]}

Walrus_begin_transaction(w) ==
    IF IsSome(w.tx_buffer)
    THEN [result |-> Err("Transaction"), db |-> w]
    ELSE [result |-> Ok(TRUE),
          db |-> [w EXCEPT !.tx_buffer = Some(TransactionBuffer_new),
                           !.changed_accounts = <<>>]]

\* The four loops of commit_transaction, each over the entries of the buffer
\* named by the set: an append to the topic, then a put into the cache.
CommitAccounts(w, buffer, addresses) ==
    [w EXCEPT
        !.wal.accounts = [a \in Addresses |->
            IF a \in addresses
            THEN Append(@[a], serialize_account(Unwrap(buffer.accounts[a])))
            ELSE @[a]],
        !.cache.accounts = [a \in Addresses |->
            IF a \in addresses THEN buffer.accounts[a] ELSE @[a]]]

CommitStorage(w, buffer, slots) ==
    [w EXCEPT
        !.wal.storage = [sk \in StorageKeys |->
            IF sk \in slots THEN Append(@[sk], Unwrap(buffer.storage[sk])) ELSE @[sk]],
        !.cache.storage = [sk \in StorageKeys |->
            IF sk \in slots THEN buffer.storage[sk] ELSE @[sk]]]

CommitCodes(w, buffer, hashes) ==
    [w EXCEPT
        !.wal.code = [h \in CodeHashes |->
            IF h \in hashes THEN Append(@[h], Unwrap(buffer.codes[h])) ELSE @[h]],
        !.cache.codes = [h \in CodeHashes |->
            IF h \in hashes THEN buffer.codes[h] ELSE @[h]]]

CommitBlockHashes(w, buffer, numbers) ==
    [w EXCEPT
        !.wal.block_hashes = [n \in BlockNumbers |->
            IF n \in numbers THEN Append(@[n], Unwrap(buffer.block_hashes[n])) ELSE @[n]],
        !.cache.block_hashes = [n \in BlockNumbers |->
            IF n \in numbers THEN buffer.block_hashes[n] ELSE @[n]]]

\* The outcomes of commit_transaction. The buffer is taken first. Then the
\* buffered accounts, storage slots, codes and block hashes are appended, in
\* that order; an append that fails ends the commit with what was appended
\* before it. The list deleted_accounts of the buffer is not read.
Walrus_commit_transaction(w) ==
    IF w.tx_buffer = None
    THEN {[result |-> Err("Transaction"), db |-> w]}
    ELSE LET buffer == Unwrap(w.tx_buffer)
             t == [w EXCEPT !.tx_buffer = None]
             b_accounts == {a \in Addresses : IsSome(buffer.accounts[a])}
             b_storage == {sk \in StorageKeys : IsSome(buffer.storage[sk])}
             b_codes == {h \in CodeHashes : IsSome(buffer.codes[h])}
             b_hashes == {n \in BlockNumbers : IsSome(buffer.block_hashes[n])}
             t1 == CommitAccounts(t, buffer, b_accounts)
             t2 == CommitStorage(t1, buffer, b_storage)
             t3 == CommitCodes(t2, buffer, b_codes)
             t4 == CommitBlockHashes(t3, buffer, b_hashes)
         IN  {[result |-> Ok(TRUE), db |-> t4]}
             \cup {[result |-> Err("Walrus"), db |-> CommitAccounts(t, buffer, done)] :
                      done \in (SUBSET b_accounts) \ {b_accounts}}
             \cup {[result |-> Err("Walrus"), db |-> CommitStorage(t1, buffer, done)] :
                      done \in (SUBSET b_storage) \ {b_storage}}
             \cup {[result |-> Err("Walrus"), db |-> CommitCodes(t2, buffer, done)] :
                      done \in (SUBSET b_codes) \ {b_codes}}
             \cup {[result |-> Err("Walrus"), db |-> CommitBlockHashes(t3, buffer, done)] :
                      done \in (SUBSET b_hashes) \ {b_hashes}}

Walrus_rollback_transaction(w) ==
    IF w.tx_buffer = None
    THEN [result |-> Err("Transaction"), db |-> w]
    ELSE [result |-> Ok(TRUE),
          db |-> [w EXCEPT !.tx_buffer = None, !.changed_accounts = <<>>]]

\* The pending pool of a producer that has fetched nothing yet.
VecDeque_new == <<>>

(***************************************************************************)
(* Specifications                                                          *)
(***************************************************************************)
\* A freshly opened store, and a producer that has produced nothing yet.
InitStore ==
    /\ db \in {EmptyTables, GenesisTables}
    /\ tx_buffer = None
    /\ changed_accounts = <<>>
    /\ cache = [a \in Addresses |-> None]
    /\ pc = "idle"
    /\ index = 0
    /\ execution_results = HashMap_new
    /\ receipts = HashMap_new
    /\ total_gas_used = 0
    /\ successful_txs = 0
    /\ failed_txs = 0
    /\ exec_result = None
    /\ block = None
    /\ schema_block = None
    /\ current_block_number = 0
    /\ submit_result = None
    /\ snapshot = db
    /\ tx_log = {}
    /\ last_call = [op |-> "new", ok |-> TRUE, in_tx |-> FALSE, error |-> None]
    /\ pending = NoPending
    /\ root_before = calculate_state_root(Store)
    /\ world = WorldOf(db)
    /\ interp = [read |-> NoReads, expected |-> NoReads]
    /\ trace = <<>>
    /\ validation = None
    /\ walrus = WalrusStateDB_new
    /\ topic = <<>>
    /\ pending_pool = VecDeque_new
    /\ taken = <<>>
    /\ writes = 0
    /\ txs_left = MaxTxs

NextStore ==
    \/ BeginTransaction
    \/ SetAccount
    \/ DeleteAccount
    \/ SetStorage
    \/ SetCode
    \/ SetBlockHash
    \/ SaveBlock
    \/ CommitTransaction
    \/ RollbackTransaction

SpecStore == InitStore /\ [][NextStore]_vars

\* A client that computes the state root and then begins a transaction.
CalculateThenBegin ==
    /\ tx_buffer = None
    /\ root_before' = calculate_state_root(Store)
    /\ SetStore(begin_transaction(Store))
    /\ snapshot' = db
    /\ pending' = NoPending
    /\ tx_log' = {}
    /\ Called("begin_transaction", TRUE)
    /\ UNCHANGED writes

NextStateRoot ==
    \/ CalculateThenBegin
    \/ SetAccount
    \/ DeleteAccount
    \/ SetStorage
    \/ CommitTransaction
    \/ RollbackTransaction

SpecStateRoot == InitStore /\ [][NextStateRoot]_vars

\* The producer on a store holding the genesis accounts.
InitBlock ==
    /\ InitStore
    /\ db = GenesisTables

NextBlock ==
    \/ ProduceBlock
    \/ ExecuteBlockBegin
    \/ SkipInvalidTransaction
    \/ RecordExecution
    \/ AbortBlock
    \/ SkipFailedTransaction
    \/ CommitBlock
    \/ SealHeader
    \/ PersistBlock

SpecBlock == InitBlock /\ [][NextBlock]_vars

(***************************************************************************)
(* validate_transaction called directly, on any sender account and any     *)
(* transaction.                                                            *)
(***************************************************************************)
ValidateBalances == {0, 2, 3, MaxU256}
ValidateValues == {0, 1, MaxU256}
ValidateGasPrices == {None, Some(0), Some(2), Some(MaxU256)}

ValidateTables ==
    {EmptyTables} \cup
    {[EmptyTables EXCEPT !.accounts["A"] = Some(serialize_account(Account(n, b, EMPTY_CODE_HASH)))] :
        n \in 0..MaxNonce, b \in ValidateBalances}

ValidateTxs ==
    {[from |-> "A", to |-> Some("B"), value |-> v, data |-> "0x", gas |-> g, nonce |-> n,
      hash |-> None, gas_price |-> gp, chain_id |-> None] :
        v \in ValidateValues, g \in 0..MaxGas, n \in 0..MaxNonce, gp \in ValidateGasPrices}

ValidateTransaction ==
    /\ \E tx \in ValidateTxs :
        validation' = Some([tx |-> tx, result |-> validate_transaction(Store, tx)])
    /\ UNCHANGED <<store_vars, exec_vars, producer_vars, snapshot, block_observers,
                   store_observers, walrus_vars, pool_vars, writes, txs_left>>

InitValidate ==
    /\ db \in ValidateTables
    /\ tx_buffer = None
    /\ changed_accounts = <<>>
    /\ cache = CachedRedbState_new
    /\ pc = "idle"
    /\ index = 0
    /\ execution_results = HashMap_new
    /\ receipts = HashMap_new
    /\ total_gas_used = 0
    /\ successful_txs = 0
    /\ failed_txs = 0
    /\ exec_result = None
    /\ block = None
    /\ schema_block = None
    /\ current_block_number = 0
    /\ submit_result = None
    /\ snapshot = db
    /\ tx_log = {}
    /\ last_call = [op |-> "new", ok |-> TRUE, in_tx |-> FALSE, error |-> None]
    /\ pending = NoPending
    /\ root_before = calculate_state_root(Store)
    /\ world = WorldOf(db)
    /\ interp = [read |-> NoReads, expected |-> NoReads]
    /\ trace = <<>>
    /\ validation = None
    /\ walrus = WalrusStateDB_new
    /\ topic = <<>>
    /\ pending_pool = VecDeque_new
    /\ taken = <<>>
    /\ writes = 0
    /\ txs_left = 0

NextValidate == ValidateTransaction

SpecValidate == InitValidate /\ [][NextValidate]_vars

(***************************************************************************)
(* execute_block called directly, as the tests of the executor do, on      *)
(* blocks whose transactions carry a gas price.                            *)
(***************************************************************************)
SchemaTx(from, to, value, data, gas, nonce, gas_price) ==
    [from |-> from, to |-> to, value |-> value, data |-> data, gas |-> gas, nonce |-> nonce,
     hash |-> None, gas_price |-> gas_price, chain_id |-> None]

ExecutorTxs ==
    {SchemaTx("A", Some("B"), 1, "0x", 2, 1, Some(1)),
     SchemaTx("A", Some("B"), 1, "0x", 2, 2, Some(2)),
     SchemaTx("A", Some("B"), 1, "0x", 2, 1, None),
     SchemaTx("A", Some("D"), 1, "0x60", 2, 1, Some(1)),
     SchemaTx("A", Some("A"), 1, "0x", 2, 1, Some(1)),
     SchemaTx(Coinbase, Some("B"), 0, "0x", 1, 0, Some(1)),
     SchemaTx("A", Some("B"), 0, "0xzz", 2, 1, Some(1)),
     SchemaTx("A", Some("B"), 1, "0x", 2, 0, Some(1)),
     SchemaTx("A", Some("B"), 1, "0x", 2, 3, Some(1))}

ExecutorBlocks == {<<t>> : t \in ExecutorTxs} \cup (ExecutorTxs \X ExecutorTxs)

InitExecutor ==
    /\ db = GenesisTables
    /\ tx_buffer = None
    /\ changed_accounts = <<>>
    /\ cache = CachedRedbState_new
    /\ pc = "begin"
    /\ index = 0
    /\ execution_results = HashMap_new
    /\ receipts = HashMap_new
    /\ total_gas_used = 0
    /\ successful_txs = 0
    /\ failed_txs = 0
    /\ exec_result = None
    /\ block = None
    /\ \E transactions \in ExecutorBlocks :
          schema_block = Some([header |-> [number |-> 0,
                                           tx_count |-> Len(transactions),
                                           transactions_root |-> calculate_transactions_root(transactions),
                                           state_root |-> None,
                                           gas_used |-> None,
                                           gas_limit |-> Some(DEFAULT_BLOCK_GAS_LIMIT),
                                           receipts_root |-> None],
                               transactions |-> transactions])
    /\ current_block_number = 0
    /\ submit_result = None
    /\ snapshot = db
    /\ tx_log = {}
    /\ last_call = [op |-> "new", ok |-> TRUE, in_tx |-> FALSE, error |-> None]
    /\ pending = NoPending
    /\ root_before = calculate_state_root(Store)
    /\ world = WorldOf(db)
    /\ interp = [read |-> NoReads, expected |-> NoReads]
    /\ trace = <<>>
    /\ validation = None
    /\ walrus = WalrusStateDB_new
    /\ topic = <<>>
    /\ pending_pool = VecDeque_new
    /\ taken = <<>>
    /\ writes = 0
    /\ txs_left = 0

NextExecutor ==
    \/ ExecuteBlockBegin
    \/ SkipInvalidTransaction
    \/ SkipUnreadableTransaction
    \/ RecordExecution
    \/ AbortBlock
    \/ SkipFailedTransaction
    \/ CommitBlock

SpecExecutor == InitExecutor /\ [][NextExecutor]_vars

\* execute_block called again on the same BlockExecutor, after the previous call
\* has returned: the adapter, its cache and the store handle are the same.
ExecuteNextBlock ==
    /\ pc \in {"idle", "executed"}
    /\ IsSome(exec_result)
    /\ current_block_number < MaxBlockNumber
    /\ current_block_number' = current_block_number + 1
    /\ \E t \in ExecutorTxs :
          schema_block' = Some([header |-> [number |-> current_block_number + 1,
                                            tx_count |-> 1,
                                            transactions_root |-> calculate_transactions_root(<<t>>),
                                            state_root |-> None,
                                            gas_used |-> None,
                                            gas_limit |-> Some(DEFAULT_BLOCK_GAS_LIMIT),
                                            receipts_root |-> None],
                                transactions |-> <<t>>])
    /\ pc' = "begin"
    /\ trace' = <<>>
    /\ interp' = [read |-> NoReads, expected |-> NoReads]
    /\ UNCHANGED <<store_vars, cache, index, execution_results, receipts, total_gas_used,
                   successful_txs, failed_txs, exec_result, block, submit_result, snapshot,
                   world, store_observers, writes, validation, walrus_vars, pool_vars, txs_left>>

NextReuse ==
    \/ NextExecutor
    \/ ExecuteNextBlock

SpecReuse == InitExecutor /\ [][NextReuse]_vars

(***************************************************************************)
(* WalrusStateDB under a client                                            *)
(***************************************************************************)
WalrusCalled(op, outcome) ==
    /\ walrus' = outcome.db
    /\ last_call' = [op |-> op, ok |-> outcome.result.ok, in_tx |-> IsSome(walrus.tx_buffer),
                     error |-> IF outcome.result.ok THEN None ELSE Some(outcome.result.error)]
    /\ UNCHANGED <<store_vars, exec_vars, producer_vars, snapshot, tx_log, pending,
                   root_before, block_observers, validation, pool_vars, txs_left>>

WalrusWrite(op, outcomes) ==
    /\ writes < MaxWrites
    /\ writes' = writes + 1
    /\ \E outcome \in outcomes : WalrusCalled(op, outcome)

WalrusBeginTransaction ==
    /\ WalrusCalled("begin_transaction", Walrus_begin_transaction(walrus))
    /\ UNCHANGED writes

WalrusSetAccount == \E a \in HarnessAddresses, acc \in HarnessAccounts :
    WalrusWrite("set_account", Walrus_set_account(walrus, a, acc))

WalrusDeleteAccount == \E a \in HarnessAddresses :
    WalrusWrite("delete_account", Walrus_delete_account(walrus, a))

WalrusSetStorage == \E a \in HarnessAddresses, k \in Keys, v \in HarnessValues :
    WalrusWrite("set_storage", Walrus_set_storage(walrus, a, k, v))

\* A read: its result is not kept, the cache it filled is.
WalrusGetAccount == \E a \in HarnessAddresses :
    /\ WalrusCalled("get_account",
                    [result |-> Ok(Walrus_get_account(walrus, a).result),
                     db |-> Walrus_get_account(walrus, a).db])
    /\ UNCHANGED writes

WalrusGetStorage == \E a \in HarnessAddresses, k \in Keys :
    /\ WalrusCalled("get_storage",
                    [result |-> Ok(Walrus_get_storage(walrus, a, k).result),
                     db |-> Walrus_get_storage(walrus, a, k).db])
    /\ UNCHANGED writes

WalrusCommitTransaction ==
    /\ \E outcome \in Walrus_commit_transaction(walrus) :
          WalrusCalled("commit_transaction", outcome)
    /\ UNCHANGED writes

WalrusRollbackTransaction ==
    /\ WalrusCalled("rollback_transaction", Walrus_rollback_transaction(walrus))
    /\ UNCHANGED writes

\* A freshly created WalrusStateDB over an empty log.
InitWalrus == InitStore /\ db = EmptyTables

NextWalrus ==
    \/ WalrusBeginTransaction
    \/ WalrusSetAccount
    \/ WalrusDeleteAccount
    \/ WalrusSetStorage
    \/ WalrusGetAccount
    \/ WalrusGetStorage
    \/ WalrusCommitTransaction
    \/ WalrusRollbackTransaction

SpecWalrus == InitWalrus /\ [][NextWalrus]_vars

(***************************************************************************)
(* The block producer and its pending pool                                 *)
(***************************************************************************)
\* The capacity of the pending pool: ten blocks' worth of transactions.
pool_max_size == MaxTxsPerBlock * 10

\* The transactions clients send: the entries of the topic that parse.
PoolTxs == Txs

\* A client's transaction is written to the topic through the gateway.
TopicAppend ==
    /\ txs_left > 0
    /\ \E tx \in PoolTxs : topic' = Append(topic, tx)
    /\ txs_left' = txs_left - 1
    /\ UNCHANGED <<store_vars, exec_vars, producer_vars, snapshot, block_observers,
                   store_observers, validation, walrus_vars, pending_pool, taken, writes>>

\* refill_pool after fetching k entries of the topic.
refill_pool(pool, entries, k) ==
    [pool |-> pool \o SubSeq(entries, 1, k), topic |-> SubSeq(entries, k + 1, Len(entries))]

\* The number of entries refill_pool fetches when no read of the topic fails:
\* until the pool is full or the topic is empty.
Fetchable(pool, entries) ==
    IF Len(pool) >= pool_max_size
    THEN 0
    ELSE IF Len(entries) <= pool_max_size - Len(pool)
    THEN Len(entries)
    ELSE pool_max_size - Len(pool)

\* The stable sort of the candidates by their gas field, descending.
RECURSIVE InsertByGas(_, _)
InsertByGas(sorted, tx) ==
    IF sorted = <<>>
    THEN <<tx>>
    ELSE IF Head(sorted).gas >= tx.gas
    THEN <<Head(sorted)>> \o InsertByGas(Tail(sorted), tx)
    ELSE <<tx>> \o sorted

RECURSIVE sort_by_gas_price(_)
sort_by_gas_price(candidates) ==
    IF candidates = <<>>
    THEN <<>>
    ELSE InsertByGas(sort_by_gas_price(SubSeq(candidates, 1, Len(candidates) - 1)),
                     candidates[Len(candidates)])

\* The selection loop: a candidate that fits the gas limit of the block is
\* selected, one that does not is pushed to the front of the pool.
RECURSIVE SelectByGas(_, _, _, _)
SelectByGas(candidates, selected, estimated_gas, pool) ==
    IF candidates = <<>>
    THEN [selected |-> selected, pool |-> pool]
    ELSE LET tx == Head(candidates) IN
         IF estimated_gas + tx.gas <= DEFAULT_BLOCK_GAS_LIMIT
         THEN SelectByGas(Tail(candidates), Append(selected, tx), estimated_gas + tx.gas, pool)
         ELSE SelectByGas(Tail(candidates), selected, estimated_gas, <<tx>> \o pool)

\* select_transactions_for_block on a refilled pool: the pool is drained.
select_transactions_for_block(pool) ==
    IF pool = <<>>
    THEN [selected |-> <<>>, pool |-> pool]
    ELSE SelectByGas(sort_by_gas_price(pool), <<>>, 0, VecDeque_new)

\* return_to_pool: the transactions are pushed to the front of the pool one
\* by one; when the pool is full the rest are dropped.
RECURSIVE return_to_pool(_, _)
return_to_pool(pool, transactions) ==
    IF transactions = <<>> \/ Len(pool) >= pool_max_size
    THEN pool
    ELSE return_to_pool(<<Head(transactions)>> \o pool, Tail(transactions))

\* produce_block, steps 1 to 4: the pool is refilled and drained, and the
\* selected transactions become the block handed to the execution layer. A
\* read of the topic that fails, or an empty selection, ends the attempt.
ProduceBlockFromPool ==
    /\ pc = "idle"
    /\ current_block_number <= MaxBlockNumber
    /\ \E k \in 0..Fetchable(pending_pool, topic), read_ok \in BOOLEAN :
        LET refilled == refill_pool(pending_pool, topic, k)
            selection == select_transactions_for_block(refilled.pool)
        IN  /\ read_ok => k = Fetchable(pending_pool, topic)
            /\ topic' = refilled.topic
            /\ IF ~read_ok
               THEN /\ pending_pool' = refilled.pool
                    /\ taken' = <<>>
                    /\ submit_result' = Some(Err("Walrus"))
                    /\ UNCHANGED <<block, schema_block, pc, trace, tx_buffer,
                                   changed_accounts, cache, exec_result>>
               ELSE IF selection.selected = <<>>
               THEN /\ pending_pool' = selection.pool
                    /\ taken' = <<>>
                    /\ submit_result' = Some(Err("No transactions in pool"))
                    /\ UNCHANGED <<block, schema_block, pc, trace, tx_buffer,
                                   changed_accounts, cache, exec_result>>
               ELSE /\ pending_pool' = selection.pool
                    /\ taken' = selection.selected
                    /\ LET b == [header |-> [number |-> current_block_number,
                                             tx_count |-> Len(selection.selected),
                                             transactions_root |->
                                                 calculate_transactions_root(selection.selected),
                                             state_root |-> None,
                                             gas_used |-> None,
                                             gas_limit |-> Some(DEFAULT_BLOCK_GAS_LIMIT),
                                             receipts_root |-> None],
                                 transactions |-> selection.selected]
                       IN  /\ block' = Some(b)
                           /\ schema_block' = Some(convert_to_schema_block(b))
                    /\ tx_buffer' = None
                    /\ changed_accounts' = <<>>
                    /\ cache' = CachedRedbState_new
                    /\ exec_result' = None
                    /\ submit_result' = None
                    /\ pc' = "begin"
                    /\ trace' = <<>>
    /\ UNCHANGED <<db, index, execution_results, receipts, total_gas_used, successful_txs,
                   failed_txs, current_block_number, snapshot, world, interp,
                   store_observers, writes, validation, walrus_vars, txs_left>>

\* The producer on a store holding the genesis accounts, its pool and the
\* topic empty.
InitProducer == InitBlock

\* After produce_block has taken the transactions of the block from the pool
\* it submits the block; no step of the submission touches the pool.
NextProducer ==
    \/ TopicAppend
    \/ ProduceBlockFromPool
    \/ ExecuteBlockBegin
    \/ SkipInvalidTransaction
    \/ RecordExecution
    \/ AbortBlock
    \/ SkipFailedTransaction
    \/ CommitBlock
    \/ SealHeader
    \/ PersistBlock

SpecProducer == InitProducer /\ [][NextProducer]_vars

\* What a reader of the store observes.
AccountView == [a \in Addresses |-> get_account(Store, a)]
StorageView == [sk \in StorageKeys |-> get_storage(Store, sk[1], sk[2])]
CodeView == [h \in CodeHashes |-> get_code(Store, h)]
BlockHashView == [n \in BlockNumbers |-> get_block_hash(Store, n)]
BlockView == [n \in BlockNumbers |-> get_block(Store, n)]

(***************************************************************************)
(* Properties of the store                                                 *)
(***************************************************************************)
\* The store as it was at the last begin_transaction: the snapshot tables, no buffer.
SnapshotStore == [db |-> snapshot, tx_buffer |-> None, changed_accounts |-> <<>>]
RolledBack == last_call.op = "rollback_transaction" /\ last_call.in_tx

\* C1: after begin_transaction, any sequence of set_account, delete_account,
\* set_storage, set_code and set_block_hash calls and then rollback_transaction,
\* every persistent table holds what it held before begin_transaction, every
\* get_* returns its pre-begin value and the changed-accounts list is empty.
C1_RollbackRestores ==
    (RolledBack /\ "save_block" \notin tx_log) =>
        /\ db = snapshot
        /\ \A a \in Addresses : get_account(Store, a) = get_account(SnapshotStore, a)
        /\ \A sk \in StorageKeys : get_storage(Store, sk[1], sk[2]) = get_storage(SnapshotStore, sk[1], sk[2])
        /\ \A h \in CodeHashes : get_code(Store, h) = get_code(SnapshotStore, h)
        /\ \A n \in BlockNumbers : get_block_hash(Store, n) = get_block_hash(SnapshotStore, n)
        /\ get_changed_accounts(Store) = <<>>

C1_Witness ==
    /\ RolledBack
    /\ {"set_account", "delete_account", "set_storage"} \subseteq tx_log
    /\ "save_block" \notin tx_log
    /\ snapshot = GenesisTables
    /\ db = snapshot

\* C6: a successful commit_transaction does not change what is read: get_account,
\* get_storage and get_block_hash return after the commit what they returned
\* immediately before it, for every sequence of buffered writes.
C6_CommitPreservesReads ==
    [][(last_call'.op = "commit_transaction" /\ last_call'.ok) =>
          /\ AccountView' = AccountView
          /\ StorageView' = StorageView
          /\ BlockHashView' = BlockHashView]_vars

\* C7: after a successful commit_transaction, get_changed_accounts returns the
\* empty list.
C7_CommitClearsChanged ==
    (last_call.op = "commit_transaction" /\ last_call.ok) => get_changed_accounts(Store) = <<>>

\* C10: save_block called while a store transaction is active is part of that
\* transaction: the block record is not in the persisted blocks table until
\* commit_transaction, and rollback_transaction discards it.
C10_SaveBlockInTransaction ==
    ("save_block" \in tx_log /\ (IsSome(tx_buffer) \/ RolledBack)) =>
        \A n \in BlockNumbers : get_block(Store, n) = get_block(SnapshotStore, n)

(***************************************************************************)
(* Properties of the block executor and of the block pipeline              *)
(***************************************************************************)
\* C2: if executing a transaction of a block yields a fatal error (Database or
\* Evm, an interpreter Halt included), execute_block rolls the transaction back
\* and returns the error, and the persistent tables hold their pre-block
\* contents: no write of the block, those of its earlier successful
\* transactions included, is persisted.
C2_FatalErrorRollsBack ==
    (trace # <<>> /\ trace[Len(trace)] \in {"Halt", "error"}) =>
        /\ pc = "idle"
        /\ IsSome(exec_result)
        /\ ~Unwrap(exec_result).ok
        /\ Unwrap(exec_result).error \in {"Database", "Evm"}
        /\ tx_buffer = None
        /\ db = snapshot

C2_Witness ==
    /\ trace = <<"Success", "Halt">>
    /\ world # WorldOf(snapshot)
    /\ IsSome(exec_result)
    /\ ~Unwrap(exec_result).ok
    /\ db = snapshot

\* C3: a transaction that fails the pre-validation of execute_block is skipped:
\* no account, slot, code or changed-accounts entry is written, no receipt and
\* no execution result is recorded, total_gas_used is unchanged, failed_txs
\* grows by exactly one, and the loop goes on with the next transaction.
C3_InvalidTransactionSkipped ==
    [][(InLoop /\ ~validate_transaction(Store, CurrentTx).ok) =>
          /\ UNCHANGED <<db, tx_buffer, changed_accounts>>
          /\ UNCHANGED <<receipts, execution_results, total_gas_used, successful_txs>>
          /\ failed_txs' = failed_txs + 1
          /\ index' = index + 1
          /\ pc' = "execute"]_vars

C3_Witness ==
    /\ trace = <<"invalid", "Success">>
    /\ failed_txs = 1
    /\ successful_txs = 1
    /\ total_gas_used = 1

\* C4: within one block the interpreter reads, for every transaction, the
\* account info, the storage values and the bytecode left by the transactions
\* executed before it, the code of a contract created earlier in the same
\* block included.
C4_SequentialReads == interp.read = interp.expected

RECURSIVE SumGas(_)
SumGas(rs) ==
    IF rs = {} THEN 0
    ELSE LET r == CHOOSE x \in rs : TRUE IN r.gas_used + SumGas(rs \ {r})

ReturnedReceipts == {Unwrap(receipts[k]) : k \in {x \in TxKeys : IsSome(receipts[x])}}

\* C5: for every block for which execute_block returns Ok, total_gas_used is
\* the sum of gas_used over the returned receipts, and the cumulative_gas_used
\* of each receipt is the sum of gas_used over the returned receipts whose
\* transaction_index is at most its own.
C5_GasAccounting ==
    (IsSome(exec_result) /\ Unwrap(exec_result).ok) =>
        /\ total_gas_used = SumGas(ReturnedReceipts)
        /\ \A r \in ReturnedReceipts :
              r.cumulative_gas_used =
                  SumGas({q \in ReturnedReceipts : q.transaction_index <= r.transaction_index})

\* C8: the block record the pipeline persists, and get_block returns
\* afterwards, carries the sealed header: state_root, gas_used,
\* transactions_root and receipts_root computed for the block, together with
\* the original transaction list.
C8_PersistedBlockIsSealed ==
    (IsSome(submit_result) /\ Unwrap(submit_result).ok) =>
        LET sealed == Unwrap(block).header
            saved == get_block(Store, sealed.number)
        IN  /\ IsSome(saved)
            /\ Unwrap(saved).transactions = Unwrap(schema_block).transactions
            /\ Unwrap(saved).header.gas_used = sealed.gas_used
            /\ Unwrap(saved).header.state_root = sealed.state_root
            /\ Unwrap(saved).header.receipts_root = sealed.receipts_root
            /\ Unwrap(saved).header.transactions_root = sealed.transactions_root

\* C9: a block is written atomically: when a root computation or save_block
\* fails, the state changes of the block are rolled back, so the account,
\* storage and code writes of a block are never persisted without its block
\* record.
C9_BlockWrittenAtomically ==
    (pc = "idle" /\ IsSome(submit_result) /\ ~Unwrap(submit_result).ok) =>
        /\ db.accounts = snapshot.accounts
        /\ db.storage = snapshot.storage
        /\ db.code = snapshot.code

Executed == {"Success", "Revert"}
ReturnedOk == IsSome(exec_result) /\ Unwrap(exec_result).ok
\* The positions of the block whose transaction ended in one of the outcomes.
Positions(outcomes) == {i \in DOMAIN trace : trace[i] \in outcomes}
ReturnedResults == {k \in TxKeys : IsSome(execution_results[k])}

\* C11: execute_block returns exactly one receipt and one execution result for
\* each transaction of the block that was executed (succeeded or reverted),
\* carrying that transaction's index, and none for any other transaction: the
\* number of receipts is the number of executed transactions.
C11_OneReceiptPerExecuted ==
    ReturnedOk =>
        /\ Cardinality(ReturnedReceipts) = Cardinality(Positions(Executed))
        /\ Cardinality(ReturnedResults) = Cardinality(Positions(Executed))
        /\ {r.transaction_index + 1 : r \in ReturnedReceipts} = Positions(Executed)

\* C12: after execute_block returns Ok, the transactions counted in failed_txs
\* are exactly those that have no receipt: the number of receipts is the number
\* of input transactions minus failed_txs, and the input transaction list is
\* unchanged.
C12_FailedHaveNoReceipt ==
    ReturnedOk =>
        /\ Cardinality(ReturnedReceipts) = Len(Unwrap(schema_block).transactions) - failed_txs
        /\ Unwrap(schema_block).transactions =
              convert_to_schema_block(Unwrap(block)).transactions

\* C13: after execute_block returns Ok, successful_txs + failed_txs is the
\* number of transactions in the block, and successful_txs is the number of
\* transactions that passed validation and executed with success = true.
C13_CountersPartition ==
    ReturnedOk =>
        /\ successful_txs + failed_txs = Len(Unwrap(schema_block).transactions)
        /\ successful_txs = Cardinality(Positions({"Success"}))
        /\ Len(trace) = Len(Unwrap(schema_block).transactions)

C13_Witness ==
    /\ ReturnedOk
    /\ trace = <<"Success", "rejected">>
    /\ successful_txs = 1
    /\ failed_txs = 1

\* C18: a transaction whose execution reverts is not an error: it yields an
\* execution result with success = false, no logs and no contract address, and
\* a receipt with status 0; its gas_used is added to total_gas_used, and the
\* loop goes on with the remaining transactions towards the commit.
C18_RevertIsRecorded ==
    [][(Len(trace') = Len(trace) + 1 /\ trace'[Len(trace')] = "Revert") =>
          LET tx_hash == tx_hash_of(CurrentTx, index)
              result == Unwrap(execution_results'[tx_hash])
              receipt == Unwrap(receipts'[tx_hash])
          IN  /\ IsSome(execution_results'[tx_hash])
              /\ ~result.success
              /\ result.logs = <<>>
              /\ result.contract_address = None
              /\ IsSome(receipts'[tx_hash])
              /\ receipt.status = 0
              /\ receipt.transaction_index = index
              /\ total_gas_used' = total_gas_used + result.gas_used
              /\ receipt.cumulative_gas_used = total_gas_used'
              /\ failed_txs' = failed_txs + 1
              /\ index' = index + 1
              /\ pc' = "execute"
              /\ IsSome(tx_buffer')]_vars

C18_Witness ==
    /\ ReturnedOk
    /\ trace = <<"Revert", "Success">>
    /\ total_gas_used = 3
    /\ \E k \in TxKeys : IsSome(receipts[k]) /\ Unwrap(receipts[k]).status = 0
    /\ db # snapshot

\* A step of execute_block in which the current transaction was executed.
ExecutedStep == Len(trace') = Len(trace) + 1 /\ trace'[Len(trace')] \in Executed

\* C16: for every transaction executed in a block (succeeded or reverted),
\* the sender account's nonce after the transaction is its nonce before the
\* transaction plus one.
C16_SenderNonceIncrements ==
    [][ExecutedStep =>
          LET before == InfoOf(get_account(Store, CurrentTx.from)).nonce
              after == get_account(Store', CurrentTx.from)
          IN  /\ IsSome(after)
              /\ Unwrap(after).nonce = before + 1]_vars

C16_Witness ==
    /\ ReturnedOk
    /\ trace = <<"Success", "Success">>
    /\ Unwrap(schema_block).transactions[1].from = "A"
    /\ Unwrap(schema_block).transactions[2].from = "A"
    /\ deserialize_account(Unwrap(snapshot.accounts["A"])).nonce = 1
    /\ deserialize_account(Unwrap(db.accounts["A"])).nonce = 3

\* What the executed transaction cost its sender, and what the claim allows.
SenderBalance(s) == InfoOf(get_account(s, CurrentTx.from)).balance
TxGasPrice == IF IsSome(CurrentTx.gas_price) THEN Unwrap(CurrentTx.gas_price) ELSE 0
GasAndValue ==
    (total_gas_used' - total_gas_used) * TxGasPrice
        + (IF trace'[Len(trace')] = "Success" THEN CurrentTx.value ELSE 0)

\* C17 as stated: for every transaction executed in a block, the sender's
\* balance decreases by exactly gas_used * gas_price + the value transferred
\* out, gas_price being the transaction's gas price.
C17_SenderPaysGasAndValue ==
    [][ExecutedStep => SenderBalance(Store) - SenderBalance(Store') = GasAndValue]_vars

\* C17 amended: the same for a sender that is paid nothing during the
\* transaction: it is not the recipient, it is not the block beneficiary, and
\* no contract of the transaction self-destructs or pays to it.
C17_SenderPaysUnlessCredited ==
    [][(/\ ExecutedStep
        /\ CurrentTx.to # Some(CurrentTx.from)
        /\ CurrentTx.from # Coinbase
        /\ world'.destroyed \subseteq world.destroyed) =>
          SenderBalance(Store) - SenderBalance(Store') = GasAndValue]_vars

C17_Witness ==
    /\ ReturnedOk
    /\ trace = <<"Success", "Success">>
    /\ Unwrap(schema_block).transactions[1].gas_price = Some(1)
    /\ Unwrap(schema_block).transactions[2].gas_price = Some(2)
    /\ deserialize_account(Unwrap(snapshot.accounts["A"])).balance = 10
    /\ deserialize_account(Unwrap(db.accounts["A"])).balance = 5

\* C19: after a block commits, get_account returns None for every account
\* whose last applied delta in that block was a self-destruct.
C19_SelfDestructedIsGone ==
    ReturnedOk => \A a \in world.destroyed : get_account(Store, a) = None

C19_Witness ==
    /\ ReturnedOk
    /\ "D" \in world.destroyed
    /\ IsSome(snapshot.accounts["D"])
    /\ get_account(Store, "D") = None

\* C20: at every point during and after block execution, every account
\* readable via get_account whose code_hash is not EMPTY_CODE_HASH has its
\* bytecode readable: get_code(code_hash) returns Some.
C20_CodeReadable ==
    \A a \in Addresses :
        LET account == get_account(Store, a) IN
        (IsSome(account) /\ Unwrap(account).code_hash # EMPTY_CODE_HASH) =>
            IsSome(get_code(Store, Unwrap(account).code_hash))

(***************************************************************************)
(* Properties of the pre-validation                                        *)
(***************************************************************************)
ValidatedTx == Unwrap(validation).tx
ValidatedResult == Unwrap(validation).result
ValidatedSender == get_account(Store, ValidatedTx.from)
NoncePasses == ValidatedSender = None \/ ValidatedTx.nonce >= Unwrap(ValidatedSender).nonce

\* C14: for a transaction with gas_limit > 0 from an existing sender account,
\* validate_transaction fails with NonceTooLow{expected = account nonce,
\* got = transaction nonce} exactly when the transaction nonce is less than the
\* account nonce: an equal nonce passes the nonce check, one less fails it.
C14_NonceTooLowExactly ==
    (IsSome(validation) /\ ValidatedTx.gas > 0 /\ IsSome(ValidatedSender)) =>
        LET acc == Unwrap(ValidatedSender) IN
        /\ (ValidatedTx.nonce < acc.nonce) <=>
              (~ValidatedResult.ok /\ ValidatedResult.error.kind = "NonceTooLow")
        /\ (ValidatedTx.nonce < acc.nonce) =>
              ValidatedResult.error = NonceTooLow(acc.nonce, ValidatedTx.nonce)

C14_Witness ==
    /\ IsSome(validation)
    /\ ValidatedTx.gas > 0
    /\ IsSome(ValidatedSender)
    /\ ValidatedTx.nonce + 1 = Unwrap(ValidatedSender).nonce
    /\ ~ValidatedResult.ok
    /\ ValidatedResult.error = NonceTooLow(ValidatedTx.nonce + 1, ValidatedTx.nonce)

\* The balance the claim asks for: gas_limit * effective gas price + value,
\* as a number.
RequiredOf(tx) ==
    tx.gas * (IF IsSome(tx.gas_price) THEN Unwrap(tx.gas_price) ELSE DefaultGasPrice) + tx.value
AvailableOf(account) == IF IsSome(account) THEN Unwrap(account).balance ELSE 0

\* C15 as stated: given gas_limit > 0 and a passing nonce check,
\* validate_transaction fails with InsufficientFunds{required, available}
\* exactly when the sender's balance (zero for an absent account) is less than
\* required = gas_limit * effective gas price + value, the effective gas price
\* being 1 Gwei when the transaction carries none; otherwise it returns Ok.
C15_InsufficientFundsExactly ==
    (IsSome(validation) /\ ValidatedTx.gas > 0 /\ NoncePasses) =>
        IF AvailableOf(ValidatedSender) < RequiredOf(ValidatedTx)
        THEN /\ ~ValidatedResult.ok
             /\ ValidatedResult.error =
                    InsufficientFunds(RequiredOf(ValidatedTx), AvailableOf(ValidatedSender))
        ELSE ValidatedResult.ok

\* C15 amended: the same, for a required balance that fits in a U256; when
\* gas_limit * effective gas price, or its sum with value, overflows a U256,
\* validate_transaction fails with a Transaction error instead.
C15_InsufficientFundsUnlessOverflow ==
    (IsSome(validation) /\ ValidatedTx.gas > 0 /\ NoncePasses) =>
        IF RequiredOf(ValidatedTx) > MaxU256
        THEN /\ ~ValidatedResult.ok
             /\ ValidatedResult.error.kind = "Transaction"
        ELSE IF AvailableOf(ValidatedSender) < RequiredOf(ValidatedTx)
        THEN /\ ~ValidatedResult.ok
             /\ ValidatedResult.error =
                    InsufficientFunds(RequiredOf(ValidatedTx), AvailableOf(ValidatedSender))
        ELSE ValidatedResult.ok

C15_Witness ==
    /\ IsSome(validation)
    /\ ValidatedTx.gas = 2
    /\ ValidatedTx.gas_price = None
    /\ ValidatedTx.value = 1
    /\ NoncePasses
    /\ AvailableOf(ValidatedSender) = 2
    /\ ~ValidatedResult.ok
    /\ ValidatedResult.error = InsufficientFunds(3, 2)

\* Whether the storage trie of the account has a leaf for the slot.
HasLeaf(s, address, key) ==
    \E leaf \in StorageRootCalculator_calculate(s, address) : leaf[1] = hash_key(key)

\* C21: the storage trie of an account has a leaf for a slot exactly when the
\* slot's current value, as get_storage returns it, is non-zero; an account
\* whose slots are all zero has the empty-trie storage root.
C21_LeafIffNonZero ==
    \A a \in Addresses :
        /\ \A k \in Keys : HasLeaf(Store, a, k) <=> get_storage(Store, a, k) # 0
        /\ (\A k \in Keys : get_storage(Store, a, k) = 0) =>
               StorageRootCalculator_calculate(Store, a) = EMPTY_STORAGE_ROOT

\* C22: the state root computed after rollback_transaction equals the state root
\* computed before the transaction's writes, whatever those writes were.
C22_RollbackRestoresRoot ==
    RolledBack => calculate_state_root(Store) = root_before

\* What the tables hold for an account and for a slot.
PersistedAccount(a) ==
    IF IsSome(db.accounts[a]) THEN Some(deserialize_account(Unwrap(db.accounts[a]))) ELSE None
PersistedStorage(sk) ==
    IF IsSome(db.storage[sk]) THEN Unwrap(db.storage[sk]) ELSE 0

\* C23: inside an active transaction get_account returns the outcome of the most
\* recent buffered set_account or delete_account on the address and get_storage
\* the value of the most recent buffered set_storage on the slot; without such a
\* write, and outside a transaction, they return the persisted value (None for an
\* absent account, zero for an absent slot).
C23_ReadYourWrites ==
    /\ \A a \in Addresses :
           get_account(Store, a) =
               IF IsSome(tx_buffer) /\ IsSome(pending.accounts[a])
               THEN Unwrap(pending.accounts[a])
               ELSE PersistedAccount(a)
    /\ \A sk \in StorageKeys :
           get_storage(Store, sk[1], sk[2]) =
               IF IsSome(tx_buffer) /\ IsSome(pending.storage[sk])
               THEN Unwrap(pending.storage[sk])
               ELSE PersistedStorage(sk)

C23_Witness ==
    /\ IsSome(tx_buffer)
    /\ db = GenesisTables
    /\ "A" \in Range(Unwrap(tx_buffer).deleted_accounts)
    /\ pending.accounts["A"] = Some(Some(with_balance(1)))
    /\ pending.storage[<<"D", 1>>] = Some(0)
    /\ get_storage(Store, "D", 1) = 0

\* C24: inside an active transaction get_changed_accounts returns, without
\* duplicates and in order of first write, exactly the addresses on which
\* set_account, delete_account or set_storage was called since begin_transaction.
C24_ChangedInFirstWriteOrder ==
    IsSome(tx_buffer) =>
        /\ get_changed_accounts(Store) = pending.order
        /\ Cardinality(Range(get_changed_accounts(Store))) = Len(get_changed_accounts(Store))

C24_Witness ==
    /\ IsSome(tx_buffer)
    /\ get_changed_accounts(Store) = <<"D", "A">>
    /\ {"set_storage", "delete_account", "set_account"} \subseteq tx_log

\* C25: begin_transaction called while a transaction is active returns a
\* Transaction error and leaves the buffer, the pending writes and the
\* changed-accounts list as they were.
C25_NestedBeginRejected ==
    [][(IsSome(tx_buffer) /\ last_call'.op = "begin_transaction") =>
          /\ last_call'.error = Some("Transaction")
          /\ UNCHANGED <<db, tx_buffer, changed_accounts>>]_vars

C25_Witness ==
    /\ last_call.op = "begin_transaction"
    /\ last_call.in_tx
    /\ last_call.error = Some("Transaction")
    /\ get_changed_accounts(Store) = <<"A", "D">>
    /\ pending.accounts["A"] = Some(None)
    /\ pending.storage[<<"D", 1>>] = Some(2)

\* C26: when commit_transaction returns an error, the persistent tables hold
\* what they held before the call: none of the buffered writes is visible.
C26_FailedCommitWritesNothing ==
    [][(last_call'.op = "commit_transaction" /\ ~last_call'.ok) =>
          /\ db' = db
          /\ \A a \in Addresses : PersistedAccount(a)' = PersistedAccount(a)
          /\ \A sk \in StorageKeys : PersistedStorage(sk)' = PersistedStorage(sk)]_vars

C26_Witness ==
    /\ last_call.op = "commit_transaction"
    /\ last_call.in_tx
    /\ last_call.error = Some("Other")
    /\ {"set_account", "set_storage", "set_code"} \subseteq tx_log
    /\ db = GenesisTables

\* C27: after every call of RevmAdapter::execute has returned, with a result or
\* with an error, the account-info cache of the adapter is empty.
C27_CacheEmptyAfterExecute ==
    (trace # <<>> /\ trace[Len(trace)] \notin {"invalid", "rejected"}) =>
        cache = CachedRedbState_new

\* C28: after execute_block has failed with a fatal error and rolled back, the
\* transactions of the next block executed by the same BlockExecutor read the
\* nonce and balance the store holds for each account (the persisted values and
\* what the transactions of that block wrote before them).
C28_ReadsAfterFailedBlock ==
    (/\ current_block_number > 0
     /\ pc \in {"execute", "executed"}
     /\ exec_result = Some(Err("Evm"))) =>
        interp.read.info = interp.expected.info

\* The ExecutorError raised for a transaction, by what became of it.
RaisedError(outcome) ==
    CASE outcome = "unreadable" -> "Database"
      [] outcome \in {"error", "Halt"} -> "Evm"
      [] outcome = "rejected" -> "Transaction"
      [] outcome = "invalid" -> "Validation"

ErrorRaised ==
    /\ trace' # trace
    /\ trace' # <<>>
    /\ trace'[Len(trace')] \in {"unreadable", "error", "Halt", "rejected", "invalid"}

\* C29: for every error raised while a transaction of the block is processed, in
\* the pre-validation or in the execution, execute_block rolls the block back
\* and returns the error if it is fatal (Database or Evm), and otherwise
\* increments failed_txs and goes on with the next transaction.
C29_ErrorsHandledByFatality ==
    [][ErrorRaised =>
          IF is_fatal(RaisedError(trace'[Len(trace')]))
          THEN /\ tx_buffer' = None
               /\ db' = snapshot
               /\ exec_result' = Some(Err(RaisedError(trace'[Len(trace')])))
          ELSE /\ failed_txs' = failed_txs + 1
               /\ index' = index + 1
               /\ IsSome(tx_buffer')
               /\ UNCHANGED exec_result]_vars

\* The transaction at hand has a nonce higher than its sender's account nonce.
HighNonce ==
    /\ InLoop
    /\ CurrentTx.nonce > InfoOf(get_account(Store, CurrentTx.from)).nonce

\* C30: a transaction whose nonce is higher than its sender's account nonce is
\* not rejected for its nonce by the pre-validation, and when it passes the
\* pre-validation it affects only itself: execute_block goes on with the next
\* transaction of the block, the block transaction still open.
C30_HighNonceIsolated ==
    [][(HighNonce /\ trace' # trace) =>
          LET validated == validate_transaction(Store, CurrentTx) IN
          /\ validated.ok \/ validated.error.kind # "NonceTooLow"
          /\ validated.ok =>
                /\ pc' = "execute"
                /\ index' = index + 1
                /\ IsSome(tx_buffer')
                /\ exec_result' = None]_vars

\* The receipts execute_block returned, in ascending transaction-index order.
ReceiptsByIndex ==
    CHOOSE q \in Values_of(receipts) :
        \A i, j \in DOMAIN q : i < j => q[i].transaction_index < q[j].transaction_index

\* C31: the receipts root written into the header of a block is the root over
\* the block's receipts in ascending transaction-index order, so that it is a
\* function of the block and the state it was executed on.
C31_ReceiptsRootInIndexOrder ==
    pc = "sealed" =>
        Unwrap(block).header.receipts_root =
            Some(Hex(IF ReceiptsByIndex # <<>>
                     THEN calculate_merkle_root(ReceiptsByIndex)
                     ELSE EMPTY_ROOT_HASH))

\* The trie over every account of the account table.
RootOverTable(s) ==
    {<<hash_key(a),
       rlp_encode_account(Unwrap(get_account(s, a)).nonce, Unwrap(get_account(s, a)).balance,
                          StorageRootCalculator_calculate(s, a),
                          Unwrap(get_account(s, a)).code_hash)>> :
        a \in {x \in Addresses : IsSome(get_account(s, x))}}

\* C32: outside a transaction StateRootCalculator::calculate returns the root
\* over every account of the account table, and so the same root for the store
\* at hand and for a store opened on the same tables, whose changed-accounts
\* list is empty.
C32_FullRootDependsOnStateOnly ==
    tx_buffer = None =>
        /\ StateRootCalculator_calculate(Store) = Ok(RootOverTable(Store))
        /\ StateRootCalculator_calculate(Store) = StateRootCalculator_calculate(Reopened(Store))

\* execute_block has returned Ok for a block of which a transaction was executed.
ExecutedBlock ==
    /\ pc = "executed"
    /\ \E i \in DOMAIN trace : trace[i] \in {"Success", "Revert"}

\* C33: after execute_block has returned Ok for a block in which at least one
\* transaction was executed, BlockExecutor::calculate_state_root returns a root
\* that has one leaf per address the block's transactions wrote, holding the
\* account as the store returns it, and that is not the empty-trie root.
C33_RootOverWrittenAccounts ==
    ExecutedBlock =>
        /\ calculate_state_root(Store).ok
        /\ calculate_state_root(Store).value # EMPTY_STATE_ROOT
        /\ calculate_state_root(Store).value =
               {process_account(Store, a).value : a \in Range(get_changed_accounts(Store))}
        /\ \A a \in Addresses :
               world.info[a] # WorldOf(snapshot).info[a] => a \in Range(get_changed_accounts(Store))

\* C34: get_all_storage agrees with get_storage in every state, also while a
\* transaction is active: it lists the slot (k, v) with v non-zero exactly when
\* get_storage returns v for k.
C34_AllStorageAgrees ==
    \A a \in Addresses, k \in Keys :
        LET v == get_storage(Store, a, k)
            listed == {slot \in get_all_storage(Store, a) : slot.key = k /\ slot.value # 0}
        IN  listed = IF v # 0 THEN {[address |-> a, key |-> k, value |-> v]} ELSE {}

\* C35: the state-root computation succeeds for every changed-accounts list the
\* store and the adapter can produce.
C35_StateRootComputable == calculate_incremental(Store).ok

\* C36: whenever execute_block has returned, with Ok or with an error, no store
\* transaction is active, and none is when the next execute_block on the same
\* executor calls begin_transaction, which therefore succeeds.
C36_NoTransactionLeftActive ==
    (pc \in {"idle", "executed", "begin"}) => tx_buffer = None

C36_Witness ==
    /\ current_block_number = 1
    /\ pc = "execute"
    /\ IsSome(tx_buffer)
    /\ exec_result = Some(Err("Evm"))
    /\ trace # <<>>

\* C37: after delete_account has removed an account, none of its storage
\* survives: get_storage returns zero for every key of the address.
C37_DeletedAccountHasNoStorage ==
    [][last_call'.op = "delete_account" =>
          \A a \in Addresses :
              (IsSome(get_account(Store, a)) /\ get_account(Store', a) = None) =>
                  \A k \in Keys : get_storage(Store', a, k) = 0]_vars

\* C38: the amount the pre-validation requires of the sender is the gas limit
\* times the gas price the interpreter charges for the same transaction, plus
\* the value, also when the transaction carries no gas_price.
C38_ValidatedPriceIsChargedPrice ==
    (/\ IsSome(validation)
     /\ calculate_required_balance(ValidatedTx).ok
     /\ build_tx_env(ValidatedTx).ok) =>
        calculate_required_balance(ValidatedTx).value =
            ValidatedTx.gas * build_tx_env(ValidatedTx).value.gas_price + ValidatedTx.value

(***************************************************************************)
(* Properties of WalrusStateDB                                             *)
(***************************************************************************)
WalrusAccountView(w) == [a \in Addresses |-> Walrus_get_account(w, a).result]

\* C39: a successful commit_transaction of WalrusStateDB persists every
\* buffered change, account deletions included: after the commit get_account
\* returns for every address what it returned immediately before the commit.
C39_WalrusCommitPersistsDeletions ==
    [][(WalrusCommitTransaction /\ last_call'.ok) =>
          WalrusAccountView(walrus') = WalrusAccountView(walrus)]_vars

(***************************************************************************)
(* Properties of the pending pool                                          *)
(***************************************************************************)
AttemptEnded == pc = "idle" /\ IsSome(submit_result)
Produced == Unwrap(submit_result).ok

\* C40: a transaction taken from the pending pool is never lost: after every
\* produce_block attempt it is in the block that was produced or back in the
\* pending pool, also when execution or persistence of the block failed.
C40_TakenTransactionsNotLost ==
    AttemptEnded =>
        \A i \in DOMAIN taken :
            \/ Produced /\ taken[i] \in Range(Unwrap(block).transactions)
            \/ taken[i] \in Range(pending_pool)

====
